---- MODULE Spec2Model ----
(***************************************************************************)
(* Bucket-list editor: the HistoryManager (undo/redo stack), the safe      *)
(* localStorage wrapper it persists through, and the callers of its API.   *)
(*                                                                         *)
(* JavaScript objects are modelled with their identity where it matters:   *)
(* an object record carries a field `ref`.  In a state, ref = 1 says that  *)
(* the caller of the API holds a reference to that very object (so a write *)
(* through that reference changes it) and ref = 0 that it does not.  While *)
(* an operation runs, the entries of the history are labelled with their   *)
(* positions and the caller's argument with -1, so that the operation's    *)
(* result shows which objects it handed out or took in without copying.    *)
(* A JSON text is modelled by the plain value it denotes together with its *)
(* length in characters and whether JSON.parse accepts it.                 *)
(* Arrays are 1-based sequences; At(arr, i) reads JavaScript index i.      *)
(***************************************************************************)
EXTENDS Integers, Sequences, FiniteSets, TLC

\* ------------------------------------------------------------- constants
maxHistory == 50

STORAGE_KEY == "bucketlist_data"
ONBOARDING_KEY == "bucketlist_onboarding"
HISTORY_KEY == "bucketlist_history"

Keys == {STORAGE_KEY, ONBOARDING_KEY, HISTORY_KEY}

\* the key isAvailable writes and removes
SentinelKey == "__storage_test__"

\* the keys of the origin's store that are followed one by one
AllKeys == Keys \cup {SentinelKey}

\* ms after which showStorageWarning removes its warning
WarningMs == 5000

\* the size ceiling of storage.set, in characters
QuotaLimit == 5 * 1024 * 1024

\* ------------------------------------------------------------- bounds
\* length of the run of consecutive pushes that is logged
MaxRun == 52
\* characters left free by the other keys of the origin when the store is nearly full
Room == 2000
\* longest history built by the caller that also reads and writes through references
MaxFreeHistory == 3
\* writes the caller makes through the references one call left it
MaxWrites == 1
\* milliseconds that pass in one step of the clock
Tick == 200
\* autoSave() calls the user's events make before the save callback runs
MaxBurst == 3
\* longest history the user's edits build before the user stops
MaxPageHistory == 2
\* characters left free when the store is nearly full as the page loads
PageRoom == 250
\* storage warnings on the page at a time beyond which no more set is called
MaxWarnings == 2
\* characters left free in a store that takes a snapshot and a history of one
\* snapshot, and not a history of two
HistoryRoom == 400
\* characters left free when the store is nearly full and storage is called alone
StoreRoom == 100
\* longest history at which the user still presses keys
MaxKeyHistory == 3
\* stickers on the card, and stickers added since the page loaded, beyond which no
\* more is added
MaxStickers == 2
\* rows of an item list beyond which addItem is not called
MaxRows == 3
\* longest string given to sanitize, longest array given to shuffle
MaxLen == 3

\* ------------------------------------------------------------- data
Names == {"", "Kim"}
Themes == {"default", "ocean"}
ItemPool == <<"Japan", "Peru", "Nepal">>

\* the item lists the editor goes through: one more item each edit, then back to one
ItemLists == {SubSeq(ItemPool, 1, n) : n \in 1..Len(ItemPool)}

NextItems(items) ==
    IF Len(items) < Len(ItemPool) THEN SubSeq(ItemPool, 1, Len(items) + 1)
    ELSE SubSeq(ItemPool, 1, 1)

\* a snapshot object: the top-level object and its nested customization object;
\* no stickers are on the card
Obj(top, u, nested, t, it) ==
    [ref |-> top, userName |-> u,
     customization |-> [ref |-> nested, theme |-> t], items |-> it,
     stickers |-> <<>>]

\* the snapshot object `o` with the stickers `st`, each sticker the number n of
\* its id sticker-n
WithStickers(o, st) == [o EXCEPT !.stickers = st]

\* the snapshot object with the data of the plain value `v`
ObjOf(top, nested, v) ==
    WithStickers(Obj(top, v.userName, nested, v.customization.theme, v.items),
                 v.stickers)

\* the plain data of a snapshot object, without identity
Plain(o) ==
    [userName |-> o.userName, customization |-> [theme |-> o.customization.theme],
     items |-> o.items, stickers |-> o.stickers]

PlainSeq(arr) == [i \in 1..Len(arr) |-> Plain(arr[i])]

\* the entries of the history labelled with their positions
Label(arr) ==
    [i \in 1..Len(arr) |->
        [arr[i] EXCEPT !.ref = i, !.customization.ref = i]]

\* the object `o` as the caller holds it
Held(o) == [o EXCEPT !.ref = 1, !.customization.ref = 1]

\* the entries of `arr` marked by whether the caller holds `held` (a sequence of
\* at most one labelled object) or parts of it
Mark(arr, held) ==
    LET tops == {held[j].ref : j \in 1..Len(held)} \ {0}
        nested == {held[j].customization.ref : j \in 1..Len(held)} \ {0}
    IN [i \in 1..Len(arr) |->
          [arr[i] EXCEPT !.ref = IF arr[i].ref \in tops THEN 1 ELSE 0,
                         !.customization.ref =
                             IF arr[i].customization.ref \in nested THEN 1 ELSE 0]]

At(arr, i) == arr[i + 1]

RECURSIVE SumSeq(_)
SumSeq(s) == IF s = <<>> THEN 0 ELSE Head(s) + SumSeq(Tail(s))

\* number of characters of a decimal integer between -99 and 99
NumLen(n) ==
    IF n < 0 THEN (IF n > -10 THEN 2 ELSE 3) ELSE (IF n < 10 THEN 1 ELSE 2)

\* characters of a JSON array whose elements take lens[i] characters
ArrayLen(lens) ==
    2 + SumSeq(lens) + (IF Len(lens) > 0 THEN Len(lens) - 1 ELSE 0)

\* characters of {"userName":"..","customization":{"theme":".."},"items":[..],
\* "stickers":[{"id":"sticker-n"},..]}
SnapshotLen(v) ==
    65 + Len(v.userName) + Len(v.customization.theme)
       + ArrayLen([i \in 1..Len(v.items) |-> Len(v.items[i]) + 2])
       + ArrayLen([i \in 1..Len(v.stickers) |-> 17 + NumLen(v.stickers[i])])

\* JSON.stringify of a snapshot object
JSONstringify(o) ==
    [text |-> Plain(o), length |-> SnapshotLen(Plain(o)), valid |-> TRUE]

\* JSON.parse of a snapshot text: a graph of new objects
JSONparse(s) == ObjOf(0, 0, s.text)

\* JSON.stringify of {history, currentIndex}
StringifyHistory(hm) ==
    [text |-> [history |-> PlainSeq(hm.history), currentIndex |-> hm.currentIndex],
     length |-> 28 + NumLen(hm.currentIndex)
                + ArrayLen([i \in 1..Len(hm.history) |-> SnapshotLen(Plain(hm.history[i]))]),
     valid |-> TRUE]

\* JSON.parse of a stored object, read as loadFromStorage reads it:
\* data.history || [] and data.currentIndex ?? -1
ParseHistory(s) ==
    [history |-> IF "history" \in DOMAIN s.text
                 THEN [i \in 1..Len(s.text.history) |-> ObjOf(0, 0, s.text.history[i])]
                 ELSE <<>>,
     currentIndex |-> IF "currentIndex" \in DOMAIN s.text THEN s.text.currentIndex
                      ELSE -1]

\* a clone that copies the top-level object only, as {...obj} does
deepCloneShallow(obj) == [obj EXCEPT !.ref = 0]

deepClone(obj) == JSONparse(JSONstringify(obj))

\* ------------------------------------------------------------- state
VARIABLES
    history,        \* HistoryManager.history
    currentIndex,   \* HistoryManager.currentIndex
    localStorage,   \* the browser store: key -> <<>> (absent) or <<text>>
    foreignUsed,    \* characters the other keys of the origin occupy
    storeThrows,    \* the name of the error localStorage.setItem throws in this
                    \* session, "none" when it does not throw
    lastCall,       \* the last call of the API: its name, argument and result
    setFailed,      \* TRUE once a storage.set call has returned false
    effects,        \* what the last call did besides: the storage.set calls it
                    \* made and what it showed to the user
    doc,            \* the editor: the name field, state.customization, the items
    pending,        \* the timeouts the debounced autoSave has pending: ms left
    elapsed,        \* ms since autoSave() was last called, up to the delay
    burst,          \* autoSave() calls since the save callback last ran
    stopwatch,      \* TRUE in a session in which span, lastAt and warnings are
                    \* taken
    span,           \* ms since the first of these calls, up to SpanCap
    lastAt,         \* what span was at the last of these calls
    page,           \* "open", or "closed" once beforeunload was handled
    tooltip,        \* TRUE while the onboarding tooltip is on the page
    warnings,       \* the storage warnings on the page: the ms each has left
    stickerIdCounter,   \* state.stickerIdCounter
    cleared,        \* TRUE from a clearSavedData() until the next autoSave() call
    tally,          \* in a session that counts them: how often autoSave() was
                    \* called and how often its callback has run
    pure,           \* the last call of a function of utils.js: its name, its
                    \* argument and its result as the caller holds them now
    tracking,       \* TRUE while only pushes were made since the history was empty
    pushLog,        \* the plain snapshots pushed in that run, oldest first
    lastPushed      \* the plain snapshot pushed last, <<>> when none

appVars == <<doc, pending, elapsed, burst, stopwatch, span, lastAt, page, tooltip>>

vars == <<history, currentIndex, localStorage, foreignUsed, storeThrows,
          lastCall, setFailed, effects, tracking, pushLog, lastPushed, appVars,
          warnings, stickerIdCounter, pure, cleared, tally>>

\* ------------------------------------------------------------- storage
Present(ls) == {k \in AllKeys : ls[k] # <<>>}

RECURSIVE SumUsed(_, _)
SumUsed(ls, ks) ==
    IF ks = {} THEN 0
    ELSE LET k == CHOOSE x \in ks : TRUE
         IN ls[k][1].length + Len(k) + SumUsed(ls, ks \ {k})

getUsedSpace(ls) == foreignUsed + SumUsed(ls, Present(ls))

\* a set whose size check leaves out the space in use
storageSetChecksLengthOnly(ls, key, serialized) ==
    IF storeThrows = "SecurityError"
    THEN [store |-> ls, ok |-> FALSE, warning |-> FALSE, raised |-> FALSE,
          threw |-> TRUE]
    ELSE IF serialized.length > QuotaLimit
    THEN [store |-> ls, ok |-> FALSE, warning |-> FALSE, raised |-> FALSE,
          threw |-> FALSE]
    ELSE IF storeThrows # "none"
         THEN [store |-> ls, ok |-> FALSE,
               warning |-> storeThrows = "QuotaExceededError", raised |-> FALSE,
               threw |-> TRUE]
         ELSE [store |-> [ls EXCEPT ![key] = <<serialized>>], ok |-> TRUE,
               warning |-> FALSE, raised |-> FALSE, threw |-> FALSE]

\* a set whose size check leaves out the value it is about to replace
storageSetDiscountsOld(ls, key, serialized) ==
    IF storeThrows = "SecurityError"
    THEN [store |-> ls, ok |-> FALSE, warning |-> FALSE, raised |-> FALSE,
          threw |-> TRUE]
    ELSE IF getUsedSpace([ls EXCEPT ![key] = <<>>]) + serialized.length > QuotaLimit
    THEN [store |-> ls, ok |-> FALSE, warning |-> FALSE, raised |-> FALSE,
          threw |-> FALSE]
    ELSE IF storeThrows # "none"
         THEN [store |-> ls, ok |-> FALSE,
               warning |-> storeThrows = "QuotaExceededError", raised |-> FALSE,
               threw |-> TRUE]
         ELSE [store |-> [ls EXCEPT ![key] = <<serialized>>], ok |-> TRUE,
               warning |-> FALSE, raised |-> FALSE, threw |-> FALSE]

\* a set that shows its warning whatever the error caught
storageSetWarnsAlways(ls, key, serialized) ==
    IF storeThrows = "SecurityError"
    THEN [store |-> ls, ok |-> FALSE, warning |-> TRUE, raised |-> FALSE,
          threw |-> TRUE]
    ELSE IF getUsedSpace(ls) + serialized.length > QuotaLimit
    THEN [store |-> ls, ok |-> FALSE, warning |-> FALSE, raised |-> FALSE,
          threw |-> FALSE]
    ELSE IF storeThrows # "none"
         THEN [store |-> ls, ok |-> FALSE, warning |-> TRUE, raised |-> FALSE,
               threw |-> TRUE]
         ELSE [store |-> [ls EXCEPT ![key] = <<serialized>>], ok |-> TRUE,
               warning |-> FALSE, raised |-> FALSE, threw |-> FALSE]

\* storage.set: the new store, the value returned, whether showStorageWarning
\* put its warning on the page, whether an error left the call, and whether its
\* catch block ran.  With
\* "SecurityError" every access of localStorage throws, the scan of getUsedSpace
\* first; with any other error name setItem throws.
storageSet(ls, key, serialized) ==
    IF storeThrows = "SecurityError"
    THEN [store |-> ls, ok |-> FALSE, warning |-> FALSE, raised |-> FALSE,
          threw |-> TRUE]
    ELSE IF getUsedSpace(ls) + serialized.length > QuotaLimit
    THEN [store |-> ls, ok |-> FALSE, warning |-> FALSE, raised |-> FALSE,
          threw |-> FALSE]
    ELSE IF storeThrows # "none"
         THEN [store |-> ls, ok |-> FALSE,
               warning |-> storeThrows = "QuotaExceededError", raised |-> FALSE,
               threw |-> TRUE]
         ELSE [store |-> [ls EXCEPT ![key] = <<serialized>>], ok |-> TRUE,
               warning |-> FALSE, raised |-> FALSE, threw |-> FALSE]

\* one storage.set call as a handler made it: its key and what it gave
SetCall(key, r) ==
    [key |-> key, ok |-> r.ok, warning |-> r.warning, raised |-> r.raised,
     threw |-> r.threw]

\* a get that lets the error of JSON.parse leave the call
storageGetUncaught(ls, key, defaultValue) ==
    IF storeThrows = "SecurityError" THEN [value |-> defaultValue, raised |-> FALSE]
    ELSE IF ls[key] = <<>> THEN [value |-> defaultValue, raised |-> FALSE]
    ELSE IF ls[key][1].valid THEN [value |-> ls[key], raised |-> FALSE]
    ELSE [value |-> <<>>, raised |-> TRUE]

\* storage.get(key, defaultValue): the value returned and whether an error left
\* the call.  <<>> stands for null and <<t>> for the value the text t denotes; a
\* text JSON.parse rejects, and a store that cannot be read, give the default
storageGetOr(ls, key, defaultValue) ==
    IF storeThrows = "SecurityError" THEN [value |-> defaultValue, raised |-> FALSE]
    ELSE IF ls[key] = <<>> THEN [value |-> defaultValue, raised |-> FALSE]
    ELSE IF ls[key][1].valid THEN [value |-> ls[key], raised |-> FALSE]
    ELSE [value |-> defaultValue, raised |-> FALSE]

\* storage.get with the default null
storageGet(ls, key) == storageGetOr(ls, key, <<>>).value

\* storage.remove: the store after it
storageRemove(ls, key) ==
    IF storeThrows = "SecurityError" THEN ls ELSE [ls EXCEPT ![key] = <<>>]

\* the text setItem(test, test) stores under the sentinel key
SentinelText ==
    [text |-> [raw |-> SentinelKey], length |-> Len(SentinelKey), valid |-> FALSE]

\* an isAvailable that leaves its sentinel in the store
isAvailableKeepsSentinel(ls) ==
    IF storeThrows # "none"
    THEN [store |-> ls, result |-> FALSE, raised |-> FALSE]
    ELSE [store |-> [ls EXCEPT ![SentinelKey] = <<SentinelText>>],
          result |-> TRUE, raised |-> FALSE]

\* storage.isAvailable: the store after it, the value returned, and whether an
\* error left the call
isAvailable(ls) ==
    IF storeThrows # "none"
    THEN [store |-> ls, result |-> FALSE, raised |-> FALSE]
    ELSE LET written == [ls EXCEPT ![SentinelKey] = <<SentinelText>>]
         IN [store |-> [written EXCEPT ![SentinelKey] = <<>>],
             result |-> TRUE, raised |-> FALSE]

\* showStorageWarning: the warnings on the page after it, each with the ms it
\* has left
showStorageWarning(shown) == shown \cup {WarningMs}

\* ------------------------------------------------------------- HistoryManager
\* Array.prototype.slice(start, end) of a JavaScript array
slice(arr, start, end) ==
    SubSeq(arr, start + 1, IF end < Len(arr) THEN end ELSE Len(arr))

canUndo(hm) == hm.currentIndex > 0

canRedo(hm) == hm.currentIndex < Len(hm.history) - 1

\* push that never evicts
pushNoEvict(hm, state) ==
    [history |-> Append(slice(hm.history, 0, hm.currentIndex + 1), deepClone(state)),
     currentIndex |-> hm.currentIndex + 1]

\* push that evicts with pop() instead of shift()
pushEvictsNewest(hm, state) ==
    LET added == Append(slice(hm.history, 0, hm.currentIndex + 1), deepClone(state))
        index == hm.currentIndex + 1
    IN IF Len(added) > maxHistory
       THEN [history |-> SubSeq(added, 1, Len(added) - 1), currentIndex |-> index - 1]
       ELSE [history |-> added, currentIndex |-> index]

\* push that slices one entry short
pushDropsCurrent(hm, state) ==
    [history |-> Append(slice(hm.history, 0, hm.currentIndex), deepClone(state)),
     currentIndex |-> hm.currentIndex + 1]

\* push that keeps the entries after the cursor
pushNoTruncate(hm, state) ==
    LET added == Append(hm.history, deepClone(state))
        index == hm.currentIndex + 1
    IN IF Len(added) > maxHistory
       THEN [history |-> Tail(added), currentIndex |-> index - 1]
       ELSE [history |-> added, currentIndex |-> index]

\* push that evicts with shift() and leaves the cursor where it was
pushShiftsOnly(hm, state) ==
    LET added == Append(slice(hm.history, 0, hm.currentIndex + 1), deepClone(state))
        index == hm.currentIndex + 1
    IN IF Len(added) > maxHistory
       THEN [history |-> Tail(added), currentIndex |-> index]
       ELSE [history |-> added, currentIndex |-> index]

\* push without saveToStorage: the manager's fields after the call
push(hm, state) ==
    LET kept == slice(hm.history, 0, hm.currentIndex + 1)
        added == Append(kept, deepClone(state))
        index == hm.currentIndex + 1
    IN IF Len(added) > maxHistory
       THEN [history |-> Tail(added), currentIndex |-> index - 1]
       ELSE [history |-> added, currentIndex |-> index]

\* undo that returns the entry it leaves
undoReturnsStale(hm) ==
    IF ~canUndo(hm) THEN [hm |-> hm, result |-> <<>>]
    ELSE [hm |-> [hm EXCEPT !.currentIndex = hm.currentIndex - 1],
          result |-> <<deepClone(At(hm.history, hm.currentIndex))>>]

\* undo that decrements before it tests the boundary
undoDecrementsFirst(hm) ==
    IF hm.currentIndex - 1 < 0
    THEN [hm |-> [hm EXCEPT !.currentIndex = IF @ >= 0 THEN @ - 1 ELSE @],
          result |-> <<>>]
    ELSE [hm |-> [hm EXCEPT !.currentIndex = hm.currentIndex - 1],
          result |-> <<deepClone(At(hm.history, hm.currentIndex - 1))>>]

\* undo whose own boundary test is one off canUndo's
undoStrict(hm) ==
    IF hm.currentIndex <= 1 THEN [hm |-> hm, result |-> <<>>]
    ELSE [hm |-> [hm EXCEPT !.currentIndex = hm.currentIndex - 1],
          result |-> <<deepClone(At(hm.history, hm.currentIndex - 1))>>]

\* undo: the manager's fields after the call and the value returned (<<>> is null)
undo(hm) ==
    IF ~canUndo(hm) THEN [hm |-> hm, result |-> <<>>]
    ELSE LET index == hm.currentIndex - 1
         IN [hm |-> [hm EXCEPT !.currentIndex = index],
             result |-> <<deepClone(At(hm.history, index))>>]

\* redo that goes to the newest entry
redoToNewest(hm) ==
    IF ~canRedo(hm) THEN [hm |-> hm, result |-> <<>>]
    ELSE LET index == Len(hm.history) - 1
         IN [hm |-> [hm EXCEPT !.currentIndex = index],
             result |-> <<deepClone(At(hm.history, index))>>]

\* redo that returns the entry it leaves
redoReturnsStale(hm) ==
    IF ~canRedo(hm) THEN [hm |-> hm, result |-> <<>>]
    ELSE [hm |-> [hm EXCEPT !.currentIndex = hm.currentIndex + 1],
          result |-> <<deepClone(At(hm.history, hm.currentIndex))>>]

\* redo: the manager's fields after the call and the value returned
redo(hm) ==
    IF ~canRedo(hm) THEN [hm |-> hm, result |-> <<>>]
    ELSE LET index == hm.currentIndex + 1
         IN [hm |-> [hm EXCEPT !.currentIndex = index],
             result |-> <<deepClone(At(hm.history, index))>>]

\* saveToStorage: what its storage.set call gave
saveToStorage(hm, ls) == storageSet(ls, HISTORY_KEY, StringifyHistory(hm))

\* loadFromStorage: the manager's fields after the call
loadFromStorage(hm, ls) ==
    LET data == storageGet(ls, HISTORY_KEY)
    IN IF data = <<>> THEN hm ELSE ParseHistory(data[1])

\* clear that forgets to reset the cursor
clearKeepsIndex(hm) == [history |-> <<>>, currentIndex |-> hm.currentIndex]

\* clear without the removal from the store: the manager's fields after the call
clear(hm) == [history |-> <<>>, currentIndex |-> -1]

\* clear that leaves the entry in the store
clearKeepsEntry(hm, ls) == [hm |-> clear(hm), store |-> ls]

\* clear: the manager's fields and the store after the call
clearAndRemove(hm, ls) ==
    [hm |-> clear(hm), store |-> storageRemove(ls, HISTORY_KEY)]

\* push that undoes its change of the manager when the save fails
pushRollsBack(hm, state, ls) ==
    LET m == push(hm, state)
        saved == saveToStorage(m, ls)
    IN [hm |-> IF saved.ok THEN m ELSE hm, saved |-> saved]

\* push that saves before it changes the manager
pushSavesFirst(hm, state, ls) ==
    [hm |-> push(hm, state), saved |-> saveToStorage(hm, ls)]

\* push: the manager's fields after the call and what its saveToStorage gave
pushAndSave(hm, state, ls) ==
    LET m == push(hm, state)
    IN [hm |-> m, saved |-> saveToStorage(m, ls)]

\* ------------------------------------------------------------- the editor
\* the delay of the debounced autoSave, in ms
Delay == 1000

\* a debounce that leaves the timeout of the call before pending
debounceKeepsTimeout(timeouts, delay) == timeouts \cup {delay}

\* a debounce that lets a pending timeout run on and sets none beside it
debounceKeepsFirstTimer(timeouts, delay) ==
    IF timeouts = {} THEN {delay} ELSE timeouts

\* a call of the function debounce(fn, delay) returned: the timeouts pending after
\* clearTimeout(timeoutId); timeoutId = setTimeout(fn, delay)
debounce(timeouts, delay) == {delay}

\* JSON.stringify of state.onboarding once the tooltip was dismissed
StringifyOnboarding ==
    [text |-> [stickerTipShown |-> TRUE], length |-> 24, valid |-> TRUE]

\* a save that pushes the snapshot whatever storage.set returned
autoSavePushesAlways(hm, data, ls) ==
    LET success == storageSet(ls, STORAGE_KEY, JSONstringify(data))
        pushed == pushAndSave(hm, data, success.store)
    IN [hm |-> pushed.hm, store |-> pushed.saved.store,
        sets |-> <<SetCall(STORAGE_KEY, success), SetCall(HISTORY_KEY, pushed.saved)>>,
        indicator |-> success.ok, pushed |-> TRUE]

\* a save that pushes the snapshot before it writes the data
autoSavePushesFirst(hm, data, ls) ==
    LET pushed == pushAndSave(hm, data, ls)
        success == storageSet(pushed.saved.store, STORAGE_KEY, JSONstringify(data))
    IN [hm |-> pushed.hm, store |-> success.store,
        sets |-> <<SetCall(HISTORY_KEY, pushed.saved), SetCall(STORAGE_KEY, success)>>,
        indicator |-> success.ok, pushed |-> TRUE]

\* the function autoSave debounces: the manager's fields and the store after it,
\* its storage.set calls, and whether it showed the save indicator
autoSaveNow(hm, data, ls) ==
    LET success == storageSet(ls, STORAGE_KEY, JSONstringify(data))
        pushed == pushAndSave(hm, data, success.store)
    IN IF success.ok
       THEN [hm |-> pushed.hm, store |-> pushed.saved.store,
             sets |-> <<SetCall(STORAGE_KEY, success),
                        SetCall(HISTORY_KEY, pushed.saved)>>,
             indicator |-> TRUE, pushed |-> TRUE]
       ELSE [hm |-> hm, store |-> success.store,
             sets |-> <<SetCall(STORAGE_KEY, success)>>,
             indicator |-> FALSE, pushed |-> FALSE]

\* restoreCategoryData: the item inputs after the items `saved` were written back;
\* inputs are added when there are too few and none is removed
restoreCategoryData(items, saved) ==
    [i \in 1..(IF Len(saved) > Len(items) THEN Len(saved) ELSE Len(items)) |->
        IF i <= Len(saved) THEN saved[i] ELSE items[i]]

\* restoreState: the editor after the snapshot `savedState` was written back
restoreState(d, savedState) ==
    [userName |-> IF savedState.userName # "" THEN savedState.userName
                  ELSE d.userName,
     customization |-> [theme |-> savedState.customization.theme],
     items |-> restoreCategoryData(d.items, savedState.items),
     stickers |-> savedState.stickers]

\* the time up to which the span of a burst of autoSave() calls is measured
SpanCap == Delay + MaxBurst * Tick

\* ------------------------------------------------------------- the calls
Manager == [history |-> Label(history), currentIndex |-> currentIndex]

HeldSeq(objs) == [j \in 1..Len(objs) |-> Held(objs[j])]

\* what a push found: the snapshot at the cursor, the snapshot pushed last, and
\* whether entries lay after the cursor
NoNote == [wasCurrent |-> <<>>, pushedBefore |-> <<>>, truncating |-> FALSE]

Call(op, arg, result, note) ==
    [op |-> op, arg |-> HeldSeq(arg), result |-> HeldSeq(result), writes |-> 0,
     note |-> note]

\* the warnings on the page after a handler whose storage.set calls were `sets`
Warned(shown, sets) ==
    IF stopwatch /\ \E i \in 1..Len(sets) : sets[i].warning
    THEN showStorageWarning(shown) ELSE shown

NoEffects ==
    [sets |-> <<>>, removed |-> {}, indicator |-> FALSE, notice |-> "",
     calls |-> 0, span |-> 0, lastAt |-> 0, raised |-> FALSE, key |-> "",
     defaultValue |-> <<>>, got |-> <<>>, available |-> FALSE, steps |-> <<>>,
     restored |-> FALSE, event |-> <<>>, ran |-> <<>>, value |-> <<>>,
     row |-> 0, before |-> <<>>]

FirstItems == SubSeq(ItemPool, 1, 1)

FirstDoc == Plain(Obj(0, "", 0, "default", FirstItems))

\* the snapshots that one edit of the current snapshot leads to; any first snapshot
NextValues ==
    IF currentIndex < 0 \/ currentIndex >= Len(history)
    THEN {Plain(Obj(0, u, 0, "default", FirstItems)) : u \in Names}
    ELSE {[Plain(At(history, currentIndex)) EXCEPT
              !.items = NextItems(At(history, currentIndex).items)]}

FreeValues ==
    {Plain(Obj(0, u, 0, t, FirstItems)) : u \in Names, t \in Themes}

Environments ==
    {<<0, "none">>, <<QuotaLimit - Room, "none">>, <<0, "QuotaExceededError">>}

\* autoSave() has not been called; its calls are not counted, or they are
NoTally == [on |-> FALSE, calls |-> 0, runs |-> 0]

\* the tally of a session that counts them
Counting == [on |-> TRUE, calls |-> 0, runs |-> 0]

\* no function of utils.js has been called
NoPure == [fn |-> "", input |-> <<>>, output |-> <<>>, was |-> <<>>, wrote |-> {}]

\* a new HistoryManager in a page that finds the store `ls`; `p` tells whether
\* init has run, `count` whether the calls of autoSave() are counted
Tallied(ls, envs, watch, p, count) ==
    /\ history = <<>>
    /\ currentIndex = -1
    /\ localStorage = ls
    /\ \E env \in envs : foreignUsed = env[1] /\ storeThrows = env[2]
    /\ lastCall = Call("new", <<>>, <<>>, NoNote)
    /\ setFailed = FALSE
    /\ effects = NoEffects
    /\ tracking = TRUE
    /\ pushLog = <<>>
    /\ lastPushed = <<>>
    /\ doc = FirstDoc
    /\ pending = {}
    /\ elapsed = 0
    /\ burst = 0
    /\ stopwatch = watch
    /\ span = 0
    /\ lastAt = 0
    /\ page = p
    /\ tooltip = TRUE
    /\ warnings = {}
    /\ stickerIdCounter = 0
    /\ pure = NoPure
    /\ cleared = FALSE
    /\ tally = count

\* the same, the calls of autoSave() not counted
Started(ls, envs, watch, p) == Tallied(ls, envs, watch, p, NoTally)

\* a new HistoryManager in a page that has loaded with the store `ls`
Boot(ls, envs, watch) == Started(ls, envs, watch, "open")

Init == Boot([k \in AllKeys |-> <<>>], Environments, FALSE)

\* the snapshot objects of the plain values `vals`
Objs(vals) ==
    [i \in 1..Len(vals) |-> ObjOf(0, 0, vals[i])]

\* the entries an earlier session's pushes left under bucketlist_history
WrittenEntries ==
    {StringifyHistory([history |-> Objs(vals), currentIndex |-> Len(vals) - 1]) :
        vals \in UNION {[1..n -> FreeValues] : n \in 1..(MaxFreeHistory - 1)}}

\* texts under bucketlist_history that no push wrote: one that is not JSON, and
\* JSON objects without history, without currentIndex, and with a currentIndex
\* beyond the array
ForeignEntries ==
    {[text |-> [raw |-> "{\"history\":[{"], length |-> 13, valid |-> FALSE]}
    \cup {[text |-> [currentIndex |-> 0], length |-> 17 + NumLen(0), valid |-> TRUE]}
    \cup {[text |-> [history |-> <<v>>],
           length |-> 12 + ArrayLen(<<SnapshotLen(v)>>), valid |-> TRUE] :
             v \in FreeValues}
    \cup {[text |-> [history |-> <<v>>, currentIndex |-> MaxFreeHistory],
           length |-> 28 + NumLen(MaxFreeHistory) + ArrayLen(<<SnapshotLen(v)>>),
           valid |-> TRUE] : v \in FreeValues}

\* the page loads with whatever the origin's store holds under bucketlist_history
InitCold ==
    \E entry \in {<<>>} \cup {<<e>> : e \in WrittenEntries \cup ForeignEntries} :
        Boot([k \in AllKeys |-> IF k = HISTORY_KEY THEN entry ELSE <<>>], Environments,
             FALSE)

\* historyManager.push(state), the caller keeping its reference to `state`
Push(v) ==
    LET state == ObjOf(-1, -1, v)
        r == pushAndSave(Manager, state, localStorage)
        hm == r.hm
        note == [wasCurrent |->
                     IF 0 <= currentIndex /\ currentIndex < Len(history)
                     THEN <<Plain(At(history, currentIndex))>> ELSE <<>>,
                 pushedBefore |-> lastPushed,
                 truncating |-> currentIndex < Len(history) - 1]
    IN /\ history' = Mark(hm.history, <<state>>)
       /\ currentIndex' = hm.currentIndex
       /\ localStorage' = r.saved.store
       /\ lastCall' = Call("push", <<state>>, <<>>, note)
       /\ setFailed' = (setFailed \/ ~r.saved.ok)
       /\ effects' = [NoEffects EXCEPT !.sets = <<SetCall(HISTORY_KEY, r.saved)>>]
       /\ warnings' = Warned(warnings, effects'.sets)
       /\ tracking' = (tracking /\ Len(pushLog) < MaxRun)
       /\ pushLog' = IF tracking' THEN Append(pushLog, v) ELSE <<>>
       /\ lastPushed' = <<v>>
       /\ UNCHANGED <<foreignUsed, storeThrows, tally, cleared, pure, stickerIdCounter, appVars>>

PushNext == \E v \in NextValues : Push(v)

PushFree == Len(history) < MaxFreeHistory /\ \E v \in FreeValues : Push(v)

\* historyManager.undo()
Undo ==
    LET r == undo(Manager)
    IN /\ history' = Mark(r.hm.history, r.result)
       /\ currentIndex' = r.hm.currentIndex
       /\ lastCall' = Call("undo", <<>>, r.result, NoNote)
       /\ effects' = NoEffects
       /\ tracking' = FALSE
       /\ pushLog' = <<>>
       /\ UNCHANGED <<localStorage, foreignUsed, storeThrows, tally, cleared, pure, stickerIdCounter, setFailed, warnings, lastPushed, appVars>>

\* historyManager.redo()
Redo ==
    LET r == redo(Manager)
    IN /\ history' = Mark(r.hm.history, r.result)
       /\ currentIndex' = r.hm.currentIndex
       /\ lastCall' = Call("redo", <<>>, r.result, NoNote)
       /\ effects' = NoEffects
       /\ tracking' = FALSE
       /\ pushLog' = <<>>
       /\ UNCHANGED <<localStorage, foreignUsed, storeThrows, tally, cleared, pure, stickerIdCounter, setFailed, warnings, lastPushed, appVars>>

\* historyManager.clear()
Clear ==
    LET r == clearAndRemove(Manager, localStorage)
    IN /\ history' = Mark(r.hm.history, <<>>)
       /\ currentIndex' = r.hm.currentIndex
       /\ localStorage' = r.store
       /\ lastCall' = Call("clear", <<>>, <<>>, NoNote)
       /\ effects' = [NoEffects EXCEPT
                         !.removed = Present(localStorage) \ Present(r.store)]
       /\ tracking' = TRUE
       /\ pushLog' = <<>>
       /\ lastPushed' = <<>>
       /\ UNCHANGED <<foreignUsed, storeThrows, tally, cleared, pure, stickerIdCounter, setFailed, warnings, appVars>>

\* historyManager.loadFromStorage()
LoadFromStorage ==
    LET hm == loadFromStorage(Manager, localStorage)
        stored == storageGet(localStorage, HISTORY_KEY)
    IN /\ history' = Mark(hm.history, <<>>)
       /\ currentIndex' = hm.currentIndex
       /\ lastCall' = Call("loadFromStorage", <<>>, <<>>, NoNote)
       /\ effects' = NoEffects
       /\ tracking' = (hm.history = <<>>)
       /\ pushLog' = <<>>
       /\ lastPushed' = IF stored = <<>> THEN lastPushed
                        ELSE IF hm.history = <<>> THEN <<>>
                        ELSE <<Plain(hm.history[Len(hm.history)])>>
       /\ UNCHANGED <<localStorage, foreignUsed, storeThrows, tally, cleared, pure, stickerIdCounter, setFailed, warnings, appVars>>

\* BucketList.getHistory(): the caller receives the manager's own array
GetHistory ==
    /\ history' = [i \in 1..Len(history) |-> Held(history[i])]
    /\ lastCall' = Call("getHistory", <<>>, <<>>, NoNote)
    /\ effects' = NoEffects
    /\ UNCHANGED <<currentIndex, localStorage, foreignUsed, storeThrows, tally, cleared, pure, stickerIdCounter, setFailed, warnings,
                   tracking, pushLog, lastPushed, appVars>>

\* the caller writes `u` to the userName of entry i of the array getHistory gave it
WriteNameThroughApi ==
    /\ lastCall.op = "getHistory"
    /\ lastCall.writes < MaxWrites
    /\ \E i \in 1..Len(history) : \E u \in Names \ {history[i].userName} :
          history' = [history EXCEPT ![i].userName = u]
    /\ lastCall' = [lastCall EXCEPT !.writes = @ + 1]
    /\ UNCHANGED <<currentIndex, localStorage, foreignUsed, storeThrows, tally, cleared, pure, stickerIdCounter, setFailed, warnings,
                   effects, tracking, pushLog, lastPushed, appVars>>

\* the caller writes `t` to the theme of entry i of the array getHistory gave it
WriteThemeThroughApi ==
    /\ lastCall.op = "getHistory"
    /\ lastCall.writes < MaxWrites
    /\ \E i \in 1..Len(history) : \E t \in Themes \ {history[i].customization.theme} :
          history' = [history EXCEPT ![i].customization.theme = t]
    /\ lastCall' = [lastCall EXCEPT !.writes = @ + 1]
    /\ UNCHANGED <<currentIndex, localStorage, foreignUsed, storeThrows, tally, cleared, pure, stickerIdCounter, setFailed, warnings,
                   effects, tracking, pushLog, lastPushed, appVars>>

\* the object the last call left with the caller: its argument or its result
HeldObjects == lastCall.arg \o lastCall.result

WriteName(o, u) == [o EXCEPT !.userName = IF o.ref = 1 THEN u ELSE @]

WriteTheme(o, t) ==
    [o EXCEPT !.customization.theme = IF o.customization.ref = 1 THEN t ELSE @]

\* the caller writes `u` to the userName of the object it passed or received
WriteNameToHeld ==
    /\ HeldObjects # <<>>
    /\ lastCall.writes < MaxWrites
    /\ \E u \in Names \ {HeldObjects[1].userName} :
          /\ history' = [i \in 1..Len(history) |-> WriteName(history[i], u)]
          /\ lastCall' = [lastCall EXCEPT
                 !.arg = [j \in 1..Len(@) |-> WriteName(@[j], u)],
                 !.result = [j \in 1..Len(@) |-> WriteName(@[j], u)],
                 !.writes = @ + 1]
    /\ UNCHANGED <<currentIndex, localStorage, foreignUsed, storeThrows, tally, cleared, pure, stickerIdCounter, setFailed, warnings,
                   effects, tracking, pushLog, lastPushed, appVars>>

\* the caller writes `t` to customization.theme of the object it passed or received
WriteThemeToHeld ==
    /\ HeldObjects # <<>>
    /\ lastCall.writes < MaxWrites
    /\ \E t \in Themes \ {HeldObjects[1].customization.theme} :
          /\ history' = [i \in 1..Len(history) |-> WriteTheme(history[i], t)]
          /\ lastCall' = [lastCall EXCEPT
                 !.arg = [j \in 1..Len(@) |-> WriteTheme(@[j], t)],
                 !.result = [j \in 1..Len(@) |-> WriteTheme(@[j], t)],
                 !.writes = @ + 1]
    /\ UNCHANGED <<currentIndex, localStorage, foreignUsed, storeThrows, tally, cleared, pure, stickerIdCounter, setFailed, warnings,
                   effects, tracking, pushLog, lastPushed, appVars>>

\* ------------------------------------------------------------- the page
\* what one input event can make of the editor: another name, another item
Edits(d) ==
    {[d EXCEPT !.userName = u] : u \in Names \ {d.userName}}
    \cup {[d EXCEPT !.items = NextItems(d.items)]}

\* the user goes on as long as the history is short and the burst is
UserActs ==
    /\ page = "open"
    /\ burst < MaxBurst
    /\ Len(history) < MaxPageHistory

\* autoSave(): the debounced function is called
CallAutoSave ==
    /\ pending' = debounce(pending, Delay)
    /\ elapsed' = 0
    /\ burst' = burst + 1
    /\ span' = IF burst = 0 THEN 0 ELSE span
    /\ lastAt' = span'
    /\ cleared' = FALSE
    /\ tally' = IF tally.on THEN [tally EXCEPT !.calls = @ + 1] ELSE tally
    /\ UNCHANGED stopwatch

\* an input event of an INPUT or TEXTAREA: the edit is in the field, the listener
\* calls autoSave()
InputEvent ==
    /\ UserActs
    /\ \E d \in Edits(doc) : doc' = d
    /\ CallAutoSave
    /\ lastCall' = Call("input", <<>>, <<>>, NoNote)
    /\ effects' = NoEffects
    /\ UNCHANGED <<history, currentIndex, localStorage, foreignUsed, storeThrows, pure, stickerIdCounter,
                   setFailed, warnings, tracking, pushLog, lastPushed, page, tooltip>>

\* keydown of Ctrl+S or Meta+S: autoSave() and the notice that the list was saved
KeydownSave ==
    /\ UserActs
    /\ CallAutoSave
    /\ lastCall' = Call("keydownSave", <<>>, <<>>, NoNote)
    /\ effects' = [NoEffects EXCEPT !.notice = "saved"]
    /\ UNCHANGED <<history, currentIndex, localStorage, foreignUsed, storeThrows, pure, stickerIdCounter,
                   setFailed, warnings, tracking, pushLog, lastPushed, doc, page, tooltip>>

\* beforeunload: the listener calls autoSave(), then the page is gone and with it
\* its timeouts
BeforeUnload ==
    /\ page = "open"
    /\ CallAutoSave
    /\ page' = "closed"
    /\ lastCall' = Call("beforeunload", <<>>, <<>>, NoNote)
    /\ effects' = NoEffects
    /\ UNCHANGED <<history, currentIndex, localStorage, foreignUsed, storeThrows, pure, stickerIdCounter,
                   setFailed, warnings, tracking, pushLog, lastPushed, doc, tooltip>>

\* Tick ms pass
TimePasses ==
    /\ page = "open"
    /\ pending' = {IF t > Tick THEN t - Tick ELSE 0 : t \in pending}
    /\ elapsed' = IF elapsed + Tick < Delay THEN elapsed + Tick ELSE Delay
    /\ warnings' = {w - Tick : w \in {x \in warnings : x > Tick}}
    /\ span' = IF burst = 0 \/ ~stopwatch THEN span
               ELSE IF span + Tick < SpanCap THEN span + Tick ELSE SpanCap
    /\ lastCall' = Call("wait", <<>>, <<>>, NoNote)
    /\ effects' = NoEffects
    /\ UNCHANGED <<history, currentIndex, localStorage, foreignUsed, storeThrows, tally, cleared, pure, stickerIdCounter,
                   setFailed, tracking, pushLog, lastPushed, doc, burst, stopwatch,
                   lastAt, page, tooltip>>

\* a timeout of the debounced autoSave is due: the save runs
AutoSaveFires ==
    /\ page = "open"
    /\ 0 \in pending
    /\ LET data == ObjOf(-1, -1, doc)
           r == autoSaveNow(Manager, data, localStorage)
           note == [wasCurrent |->
                        IF 0 <= currentIndex /\ currentIndex < Len(history)
                        THEN <<Plain(At(history, currentIndex))>> ELSE <<>>,
                    pushedBefore |-> lastPushed,
                    truncating |-> currentIndex < Len(history) - 1]
       IN /\ history' = Mark(r.hm.history, <<>>)
          /\ currentIndex' = r.hm.currentIndex
          /\ localStorage' = r.store
          /\ lastCall' = Call("autoSave", <<>>, <<>>, note)
          /\ setFailed' = (setFailed \/ \E i \in 1..Len(r.sets) : ~r.sets[i].ok)
          /\ effects' = [NoEffects EXCEPT
                            !.sets = r.sets, !.indicator = r.indicator,
                            !.calls = burst, !.span = span, !.lastAt = lastAt,
                            !.raised = \E i \in 1..Len(r.sets) : r.sets[i].raised]
          /\ warnings' = Warned(warnings, r.sets)
          /\ tracking' = IF r.pushed THEN tracking /\ Len(pushLog) < MaxRun
                         ELSE tracking
          /\ pushLog' = IF ~r.pushed THEN pushLog
                        ELSE IF tracking' THEN Append(pushLog, Plain(data)) ELSE <<>>
          /\ lastPushed' = IF r.pushed THEN <<Plain(data)>> ELSE lastPushed
    /\ pending' = pending \ {0}
    /\ tally' = IF tally.on THEN [tally EXCEPT !.runs = @ + 1] ELSE tally
    /\ burst' = 0
    /\ span' = 0
    /\ lastAt' = 0
    /\ UNCHANGED <<foreignUsed, storeThrows, cleared, pure, stickerIdCounter, doc, elapsed, stopwatch, page, tooltip>>

\* handleUndo: the manager and the editor after it, what undo() returned, whether
\* restoreState was called, and the notification shown
handleUndo(hm, d) ==
    LET r == undo(hm)
    IN [hm |-> r.hm, result |-> r.result,
        doc |-> IF r.result = <<>> THEN d ELSE restoreState(d, Plain(r.result[1])),
        restored |-> r.result # <<>>,
        notice |-> IF r.result = <<>> THEN "" ELSE "undone"]

\* a handleRedo that calls restoreState with the current entry at the tail
handleRedoRestoresAlways(hm, d) ==
    LET r == redo(hm)
        state == IF r.result # <<>> THEN r.result
                 ELSE IF 0 <= hm.currentIndex /\ hm.currentIndex < Len(hm.history)
                      THEN <<At(hm.history, hm.currentIndex)>> ELSE <<>>
    IN [hm |-> r.hm, result |-> r.result,
        doc |-> IF state = <<>> THEN d ELSE restoreState(d, Plain(state[1])),
        restored |-> state # <<>>,
        notice |-> IF r.result = <<>> THEN "" ELSE "redone"]

\* handleRedo: as handleUndo, with redo()
handleRedo(hm, d) ==
    LET r == redo(hm)
    IN [hm |-> r.hm, result |-> r.result,
        doc |-> IF r.result = <<>> THEN d ELSE restoreState(d, Plain(r.result[1])),
        restored |-> r.result # <<>>,
        notice |-> IF r.result = <<>> THEN "" ELSE "redone"]

\* handleUndo: the undo button, Ctrl+Z
HandleUndo ==
    /\ page = "open"
    /\ LET r == handleUndo(Manager, doc)
       IN /\ history' = Mark(r.hm.history, <<>>)
          /\ currentIndex' = r.hm.currentIndex
          /\ doc' = r.doc
          /\ lastCall' = Call("handleUndo", <<>>, r.result, NoNote)
          /\ effects' = [NoEffects EXCEPT !.notice = r.notice,
                                         !.restored = r.restored]
    /\ tracking' = FALSE
    /\ pushLog' = <<>>
    /\ UNCHANGED <<localStorage, foreignUsed, storeThrows, tally, cleared, pure, stickerIdCounter, setFailed, warnings, lastPushed,
                   pending, elapsed, burst, stopwatch, span, lastAt, page, tooltip>>

\* handleRedo: the redo button, Ctrl+Y
HandleRedo ==
    /\ page = "open"
    /\ LET r == handleRedo(Manager, doc)
       IN /\ history' = Mark(r.hm.history, <<>>)
          /\ currentIndex' = r.hm.currentIndex
          /\ doc' = r.doc
          /\ lastCall' = Call("handleRedo", <<>>, r.result, NoNote)
          /\ effects' = [NoEffects EXCEPT !.notice = r.notice,
                                         !.restored = r.restored]
    /\ tracking' = FALSE
    /\ pushLog' = <<>>
    /\ UNCHANGED <<localStorage, foreignUsed, storeThrows, tally, cleared, pure, stickerIdCounter, setFailed, warnings, lastPushed,
                   pending, elapsed, burst, stopwatch, span, lastAt, page, tooltip>>

\* dismissStickerTooltip: the flag is stored and the tooltip leaves the page
DismissStickerTooltip ==
    /\ page = "open"
    /\ tooltip
    /\ LET r == storageSet(localStorage, ONBOARDING_KEY, StringifyOnboarding)
       IN /\ localStorage' = r.store
          /\ setFailed' = (setFailed \/ ~r.ok)
          /\ effects' = [NoEffects EXCEPT !.sets = <<SetCall(ONBOARDING_KEY, r)>>]
    /\ warnings' = Warned(warnings, effects'.sets)
    /\ tooltip' = FALSE
    /\ lastCall' = Call("dismissStickerTooltip", <<>>, <<>>, NoNote)
    /\ UNCHANGED <<history, currentIndex, foreignUsed, storeThrows, tally, cleared, pure, stickerIdCounter, tracking,
                   pushLog, lastPushed, doc, pending, elapsed, burst, stopwatch, span,
                   lastAt, page>>

\* clearSavedData: the manager's fields and the store after it
clearSavedData(hm, ls) ==
    clearAndRemove(hm, storageRemove(storageRemove(ls, STORAGE_KEY), ONBOARDING_KEY))

\* BucketList.clearSavedData()
ClearSavedData ==
    /\ page = "open"
    /\ LET r == clearSavedData(Manager, localStorage)
       IN /\ history' = Mark(r.hm.history, <<>>)
          /\ currentIndex' = r.hm.currentIndex
          /\ localStorage' = r.store
          /\ effects' = [NoEffects EXCEPT
                            !.removed = Present(localStorage) \ Present(r.store)]
    /\ lastCall' = Call("clearSavedData", <<>>, <<>>, NoNote)
    /\ cleared' = TRUE
    /\ tracking' = TRUE
    /\ pushLog' = <<>>
    /\ lastPushed' = <<>>
    /\ UNCHANGED <<foreignUsed, storeThrows, tally, pure, stickerIdCounter, setFailed, warnings, appVars>>

PageEnvironments ==
    {<<0, "none">>, <<QuotaLimit - PageRoom, "none">>, <<QuotaLimit, "none">>,
     <<0, "QuotaExceededError">>}

\* the page has loaded on an empty store
InitPage == Boot([k \in AllKeys |-> <<>>], PageEnvironments, FALSE)

\* the page: edits, the debounced save, undo and redo, the shortcuts, unload
NextPage ==
    \/ InputEvent \/ KeydownSave \/ BeforeUnload
    \/ TimePasses \/ AutoSaveFires
    \/ HandleUndo \/ HandleRedo
    \/ DismissStickerTooltip \/ ClearSavedData

SpecPage == InitPage /\ [][NextPage]_vars

\* the page has loaded on an empty store of an origin whose other keys leave it
\* HistoryRoom characters
InitTight ==
    Boot([k \in AllKeys |-> <<>>], {<<QuotaLimit - HistoryRoom, "none">>}, FALSE)

SpecTight == InitTight /\ [][NextPage]_vars

\* the page has loaded on an empty store that takes every write, and the calls
\* of autoSave() are timed
InitDebounce == Boot([k \in AllKeys |-> <<>>], {<<0, "none">>}, TRUE)

\* the debounced autoSave: its callers, the clock, the callback
NextDebounce ==
    \/ InputEvent \/ KeydownSave \/ BeforeUnload
    \/ TimePasses \/ AutoSaveFires

SpecDebounce == InitDebounce /\ [][NextDebounce]_vars

\* the page has loaded on an empty store that takes every write, and the calls
\* of autoSave() and the runs of its callback are counted
InitTimers ==
    Tallied([k \in AllKeys |-> <<>>], {<<0, "none">>}, FALSE, "open", Counting)

\* a timeout of the debounced autoSave is due in an open page: AutoSaveFires is
\* enabled, and every step of it changes the state
AutoSaveDue == page = "open" /\ 0 \in pending

\* the same page in a browser that keeps its clock running and runs the callback
\* of a timeout that is due, as the event loop does while the page is open: weak
\* fairness of TimePasses and of AutoSaveFires, the latter written out with
\* AutoSaveDue for ENABLED <<AutoSaveFires>>_vars
SpecTimers ==
    /\ InitTimers
    /\ [][NextDebounce]_vars
    /\ WF_vars(TimePasses)
    /\ ([]<>~AutoSaveDue \/ []<><<AutoSaveFires>>_vars)

\* the HistoryManager on its own, every snapshot one edit away from the current one
Next == PushNext \/ Undo \/ Redo \/ Clear \/ LoadFromStorage

Spec == Init /\ [][Next]_vars

\* short histories of freely chosen snapshots
NextFree == PushFree \/ Undo \/ Redo \/ Clear \/ LoadFromStorage

SpecFree == Init /\ [][NextFree]_vars

\* init's loadFromStorage on the new manager
ColdLoad == lastCall.op = "new" /\ LoadFromStorage

\* the manager from a page load on: the load, then pushes and clears
NextCold == ColdLoad \/ PushFree \/ Clear

SpecCold == InitCold /\ [][NextCold]_vars

\* short histories, and a caller that reads the history and writes through the
\* references it holds
NextApi ==
    \/ PushFree \/ Undo \/ Redo \/ Clear \/ LoadFromStorage
    \/ GetHistory
    \/ WriteNameThroughApi \/ WriteThemeThroughApi
    \/ WriteNameToHeld \/ WriteThemeToHeld

SpecApi == Init /\ [][NextApi]_vars

\* ------------------------------------------------------------- the keyboard
\* the letter keys that matter, and one that has no shortcut
Letters == {"z", "y", "s", "a"}

upper(c) ==
    IF c = "z" THEN "Z" ELSE IF c = "y" THEN "Y" ELSE IF c = "s" THEN "S" ELSE "A"

\* the keydown events of a letter key: the key pressed, the modifiers held, and
\* whether CapsLock is on
KeyEvents ==
    [letter : Letters, ctrlKey : BOOLEAN, metaKey : BOOLEAN, shiftKey : BOOLEAN,
     capsLock : BOOLEAN]

\* KeyboardEvent.key of a letter key: the upper-case letter when exactly one of
\* Shift and CapsLock applies
eventKey(e) == IF e.shiftKey # e.capsLock THEN upper(e.letter) ELSE e.letter

\* the keydown listener of registerKeyboardShortcuts: the handlers it runs for the
\* event `e`, in the order of its three if statements
shortcuts(e) ==
    (IF (e.ctrlKey \/ e.metaKey) /\ eventKey(e) = "z" /\ ~e.shiftKey
     THEN <<"handleUndo">> ELSE <<>>)
    \o (IF (e.ctrlKey \/ e.metaKey) /\ (eventKey(e) = "y" \/ (eventKey(e) = "z" /\ e.shiftKey))
        THEN <<"handleRedo">> ELSE <<>>)
    \o (IF (e.ctrlKey \/ e.metaKey) /\ eventKey(e) = "s" THEN <<"autoSave">> ELSE <<>>)

\* the manager, the editor and the notification after the handlers `ran` have run
\* one after the other
RECURSIVE runHandlers(_, _, _, _)
runHandlers(ran, hm, d, notice) ==
    IF ran = <<>> THEN [hm |-> hm, doc |-> d, notice |-> notice]
    ELSE IF Head(ran) = "handleUndo"
         THEN LET r == handleUndo(hm, d)
              IN runHandlers(Tail(ran), r.hm, r.doc,
                             IF r.notice = "" THEN notice ELSE r.notice)
    ELSE IF Head(ran) = "handleRedo"
         THEN LET r == handleRedo(hm, d)
              IN runHandlers(Tail(ran), r.hm, r.doc,
                             IF r.notice = "" THEN notice ELSE r.notice)
    ELSE runHandlers(Tail(ran), hm, d, "saved")

Has(seq, x) == \E i \in 1..Len(seq) : seq[i] = x

\* a keydown event reaches the listener of registerKeyboardShortcuts
Keydown ==
    /\ page = "open"
    /\ burst < MaxBurst
    /\ Len(history) < MaxKeyHistory
    /\ \E e \in KeyEvents :
         LET ran == shortcuts(e)
             r == runHandlers(ran, Manager, doc, "")
         IN /\ history' = Mark(r.hm.history, <<>>)
            /\ currentIndex' = r.hm.currentIndex
            /\ doc' = r.doc
            /\ effects' = [NoEffects EXCEPT !.notice = r.notice, !.event = <<e>>,
                                           !.ran = ran]
            /\ tracking' = (tracking /\ ~Has(ran, "handleUndo")
                                     /\ ~Has(ran, "handleRedo"))
            /\ pushLog' = IF tracking' THEN pushLog ELSE <<>>
            /\ IF Has(ran, "autoSave") THEN CallAutoSave
               ELSE UNCHANGED <<pending, elapsed, burst, stopwatch, span, lastAt,
                               cleared, tally>>
    /\ lastCall' = Call("keydown", <<>>, <<>>, NoNote)
    /\ UNCHANGED <<localStorage, foreignUsed, storeThrows, pure, stickerIdCounter, setFailed, warnings,
                   lastPushed, page, tooltip>>

\* ------------------------------------------------------------- startup
\* the steps of init that leave something behind, in the order init takes them
InitSteps ==
    <<"initErrorHandling", "checkOnboarding", "loadFromStorage", "loadSavedData",
      "initEventListeners", "setupAutoSave", "registerKeyboardShortcuts">>

\* loadSavedData: the editor after the stored data was written into it
loadSavedData(d, ls) ==
    LET data == storageGet(ls, STORAGE_KEY)
    IN IF data = <<>> THEN d
       ELSE [userName |-> IF data[1].text.userName # "" THEN data[1].text.userName
                          ELSE d.userName,
             customization |-> [theme |-> data[1].text.customization.theme],
             items |-> restoreCategoryData(d.items, data[1].text.items),
             stickers |-> data[1].text.stickers]

\* an init that gives up when storage is not available
initAbortsWhenUnavailable(hm, d, ls) ==
    LET avail == isAvailable(ls)
    IN IF avail.result
       THEN [hm |-> loadFromStorage(hm, avail.store),
             doc |-> loadSavedData(d, avail.store),
             tooltip |-> storageGet(avail.store, ONBOARDING_KEY) = <<>>,
             store |-> avail.store, notice |-> "", steps |-> InitSteps,
             raised |-> FALSE]
       ELSE [hm |-> hm, doc |-> d, tooltip |-> TRUE, store |-> avail.store,
             notice |-> "storageUnavailable", steps |-> SubSeq(InitSteps, 1, 1),
             raised |-> TRUE]

\* init: the manager, the editor, the tooltip flag and the store after it, the
\* notice it showed, the steps it completed, and whether an error left it
init(hm, d, ls) ==
    LET avail == isAvailable(ls)
    IN [hm |-> loadFromStorage(hm, avail.store),
        doc |-> loadSavedData(d, avail.store),
        tooltip |-> storageGet(avail.store, ONBOARDING_KEY) = <<>>,
        store |-> avail.store,
        notice |-> IF avail.result THEN "" ELSE "storageUnavailable",
        steps |-> InitSteps,
        raised |-> FALSE]

\* DOMContentLoaded: init runs; its listeners are there once it has registered them
Startup ==
    /\ page = "loading"
    /\ LET r == init(Manager, doc, localStorage)
           stored == storageGet(r.store, HISTORY_KEY)
       IN /\ history' = Mark(r.hm.history, <<>>)
          /\ currentIndex' = r.hm.currentIndex
          /\ localStorage' = r.store
          /\ doc' = r.doc
          /\ tooltip' = r.tooltip
          /\ page' = IF Len(r.steps) = Len(InitSteps) THEN "open" ELSE "dead"
          /\ effects' = [NoEffects EXCEPT !.notice = r.notice, !.steps = r.steps,
                                         !.raised = r.raised]
          /\ tracking' = (r.hm.history = <<>>)
          /\ lastPushed' = IF stored = <<>> \/ r.hm.history = <<>> THEN <<>>
                           ELSE <<Plain(r.hm.history[Len(r.hm.history)])>>
    /\ lastCall' = Call("init", <<>>, <<>>, NoNote)
    /\ pushLog' = <<>>
    /\ UNCHANGED <<foreignUsed, storeThrows, tally, cleared, pure, stickerIdCounter, setFailed, warnings, pending, elapsed,
                   burst, stopwatch, span, lastAt>>

\* the session's localStorage: every access throws, setItem throws for lack of
\* quota, it works
StartupEnvironments ==
    {<<0, "SecurityError">>, <<0, "QuotaExceededError">>, <<0, "none">>}

\* what an earlier session that saved one snapshot and dismissed the tooltip left
EarlierSession(v) ==
    [k \in AllKeys |->
        IF k = STORAGE_KEY THEN <<JSONstringify(Objs(<<v>>)[1])>>
        ELSE IF k = HISTORY_KEY
             THEN <<StringifyHistory([history |-> Objs(<<v>>), currentIndex |-> 0])>>
        ELSE IF k = ONBOARDING_KEY THEN <<StringifyOnboarding>>
        ELSE <<>>]

\* the page is loading: the store is empty or an earlier session's
InitStartup ==
    \E ls \in {[k \in AllKeys |-> <<>>]} \cup {EarlierSession(v) : v \in FreeValues} :
        Started(ls, StartupEnvironments, FALSE, "loading")

\* the page from its load on
NextStartup ==
    \/ Startup
    \/ InputEvent \/ TimePasses \/ AutoSaveFires
    \/ HandleUndo \/ HandleRedo \/ ClearSavedData

SpecStartup == InitStartup /\ [][NextStartup]_vars

\* what an earlier session that saved `vals` one after the other left
EarlierHistory(vals) ==
    [k \in AllKeys |->
        IF k = STORAGE_KEY THEN <<JSONstringify(Objs(vals)[Len(vals)])>>
        ELSE IF k = HISTORY_KEY
             THEN <<StringifyHistory([history |-> Objs(vals),
                                      currentIndex |-> Len(vals) - 1])>>
        ELSE <<>>]

\* the page is loading on a working store that holds a history of two entries
InitKeys ==
    \E t \in Themes :
        Started(EarlierHistory(<<Plain(Obj(0, "", 0, t, FirstItems)),
                                 Plain(Obj(0, "Kim", 0, t, FirstItems))>>),
                {<<0, "none">>}, FALSE, "loading")

\* the page and its keyboard
NextKeys == Startup \/ Keydown \/ TimePasses \/ AutoSaveFires

SpecKeys == InitKeys /\ [][NextKeys]_vars

\* ------------------------------------------------------------- stickers
\* addSticker: state.stickers and state.stickerIdCounter after it
addSticker(stickers, counter) ==
    [stickers |-> Append(stickers, counter + 1), stickerIdCounter |-> counter + 1]

\* removeSticker(stickerId): state.stickers after it
removeSticker(stickers, stickerId) == SelectSeq(stickers, LAMBDA id : id # stickerId)

\* BucketList.addSticker(emoji)
AddSticker ==
    /\ page = "open"
    /\ stickerIdCounter < MaxStickers
    /\ Len(doc.stickers) < MaxStickers
    /\ LET r == addSticker(doc.stickers, stickerIdCounter)
       IN /\ doc' = [doc EXCEPT !.stickers = r.stickers]
          /\ stickerIdCounter' = r.stickerIdCounter
    /\ lastCall' = Call("addSticker", <<>>, <<>>, NoNote)
    /\ effects' = NoEffects
    /\ UNCHANGED <<history, currentIndex, localStorage, foreignUsed, storeThrows, tally, cleared, pure,
                   setFailed, warnings, tracking, pushLog, lastPushed, pending,
                   elapsed, burst, stopwatch, span, lastAt, page, tooltip>>

\* BucketList.removeSticker(stickerId), from the delete button of a sticker
RemoveSticker ==
    /\ page = "open"
    /\ \E i \in 1..Len(doc.stickers) :
          doc' = [doc EXCEPT !.stickers = removeSticker(@, doc.stickers[i])]
    /\ lastCall' = Call("removeSticker", <<>>, <<>>, NoNote)
    /\ effects' = NoEffects
    /\ UNCHANGED <<history, currentIndex, localStorage, foreignUsed, storeThrows, tally, cleared, pure,
                   stickerIdCounter, setFailed, warnings, tracking, pushLog,
                   lastPushed, pending, elapsed, burst, stopwatch, span, lastAt, page,
                   tooltip>>

\* BucketList.clearStickers()
ClearStickers ==
    /\ page = "open"
    /\ doc.stickers # <<>>
    /\ doc' = [doc EXCEPT !.stickers = <<>>]
    /\ lastCall' = Call("clearStickers", <<>>, <<>>, NoNote)
    /\ effects' = NoEffects
    /\ UNCHANGED <<history, currentIndex, localStorage, foreignUsed, storeThrows, tally, cleared, pure,
                   stickerIdCounter, setFailed, warnings, tracking, pushLog,
                   lastPushed, pending, elapsed, burst, stopwatch, span, lastAt, page,
                   tooltip>>

\* the user reloads the page: a new state, a new HistoryManager, and init on the
\* store the page left
Reload ==
    /\ page = "open"
    /\ LET r == init([history |-> <<>>, currentIndex |-> -1], FirstDoc, localStorage)
           stored == storageGet(r.store, HISTORY_KEY)
       IN /\ history' = Mark(r.hm.history, <<>>)
          /\ currentIndex' = r.hm.currentIndex
          /\ localStorage' = r.store
          /\ doc' = r.doc
          /\ tooltip' = r.tooltip
          /\ effects' = [NoEffects EXCEPT !.notice = r.notice, !.steps = r.steps,
                                         !.raised = r.raised]
          /\ tracking' = (r.hm.history = <<>>)
          /\ lastPushed' = IF stored = <<>> \/ r.hm.history = <<>> THEN <<>>
                           ELSE <<Plain(r.hm.history[Len(r.hm.history)])>>
    /\ stickerIdCounter' = 0
    /\ cleared' = FALSE
    /\ pending' = {}
    /\ elapsed' = 0
    /\ burst' = 0
    /\ span' = 0
    /\ lastAt' = 0
    /\ warnings' = {}
    /\ setFailed' = FALSE
    /\ pushLog' = <<>>
    /\ lastCall' = Call("reload", <<>>, <<>>, NoNote)
    /\ UNCHANGED <<foreignUsed, storeThrows, tally, pure, stopwatch, page>>

\* the page has loaded on an empty, working store
InitStickers == Boot([k \in AllKeys |-> <<>>], {<<0, "none">>}, FALSE)

\* the user does one thing at a time: nothing else while a save is pending
Idle == pending = {}

\* the stickers, the save and the wait for it, undo and redo, and the reload
NextStickers ==
    \/ (Idle /\ AddSticker) \/ (Idle /\ RemoveSticker) \/ (Idle /\ ClearStickers)
    \/ (Idle /\ KeydownSave) \/ (~Idle /\ TimePasses) \/ AutoSaveFires
    \/ (Idle /\ HandleUndo) \/ (Idle /\ HandleRedo)
    \/ (Idle /\ Reload)

SpecStickers == InitStickers /\ [][NextStickers]_vars

\* ------------------------------------------------------------- items
\* the texts of the rows of one item list, first row first

\* addItem(containerId): the rows of the container after it
addItem(rows) == Append(rows, "")

\* a removeItem that removes the row whatever the list holds
removeItemAlways(rows, index) ==
    [i \in 1..(Len(rows) - 1) |-> IF i < index THEN rows[i] ELSE rows[i + 1]]

\* removeItem(btn, containerId), btn the button of row `index` of the container,
\* as the onclick addItem writes passes it: the rows of the container after it
removeItem(rows, index) ==
    IF Len(rows) > 1
    THEN [i \in 1..(Len(rows) - 1) |-> IF i < index THEN rows[i] ELSE rows[i + 1]]
    ELSE <<"">>

\* the + button of the list
AddItem ==
    /\ page = "open"
    /\ Len(doc.items) < MaxRows
    /\ doc' = [doc EXCEPT !.items = addItem(@)]
    /\ lastCall' = Call("addItem", <<>>, <<>>, NoNote)
    /\ effects' = [NoEffects EXCEPT !.before = doc.items]
    /\ UNCHANGED <<history, currentIndex, localStorage, foreignUsed, storeThrows, tally,
                   cleared, pure, stickerIdCounter, setFailed, warnings, tracking,
                   pushLog, lastPushed, pending, elapsed, burst, stopwatch, span,
                   lastAt, page, tooltip>>

\* the x button of a row
RemoveItem ==
    /\ page = "open"
    /\ \E index \in 1..Len(doc.items) :
          /\ doc' = [doc EXCEPT !.items = removeItem(@, index)]
          /\ effects' = [NoEffects EXCEPT !.row = index, !.before = doc.items]
    /\ lastCall' = Call("removeItem", <<>>, <<>>, NoNote)
    /\ UNCHANGED <<history, currentIndex, localStorage, foreignUsed, storeThrows, tally,
                   cleared, pure, stickerIdCounter, setFailed, warnings, tracking,
                   pushLog, lastPushed, pending, elapsed, burst, stopwatch, span,
                   lastAt, page, tooltip>>

\* the user types a text into a row
TypeItem ==
    /\ page = "open"
    /\ \E index \in 1..Len(doc.items) : \E i \in 1..Len(ItemPool) :
          /\ doc.items[index] # ItemPool[i]
          /\ doc' = [doc EXCEPT !.items[index] = ItemPool[i]]
    /\ lastCall' = Call("input", <<>>, <<>>, NoNote)
    /\ effects' = NoEffects
    /\ UNCHANGED <<history, currentIndex, localStorage, foreignUsed, storeThrows, tally,
                   cleared, pure, stickerIdCounter, setFailed, warnings, tracking,
                   pushLog, lastPushed, pending, elapsed, burst, stopwatch, span,
                   lastAt, page, tooltip>>

\* the page has loaded with its one-row list
InitItems == Boot([k \in AllKeys |-> <<>>], {<<0, "none">>}, FALSE)

\* one item list: its buttons and its inputs
NextList == AddItem \/ RemoveItem \/ TypeItem

SpecItems == InitItems /\ [][NextList]_vars

\* ------------------------------------------------------------- utils.js
\* the objects of a call's result that are new get the labels `top` and `nested`
Fresh(o, top, nested) ==
    [o EXCEPT !.ref = IF @ = 0 THEN top ELSE @,
              !.customization.ref = IF @ = 0 THEN nested ELSE @]

\* the object `o` after `u` was written to the userName of the object labelled
\* `target`
WriteTop(o, target, u) == [o EXCEPT !.userName = IF o.ref = target THEN u ELSE @]

\* the object `o` after `t` was written to the theme of the customization object
\* labelled `target`
WriteNested(o, target, t) ==
    [o EXCEPT !.customization.theme = IF o.customization.ref = target THEN t ELSE @]

\* the objects deepClone is called with: the top-level object is labelled 1, its
\* customization object 2
CloneInputs ==
    {WithStickers(Obj(1, u, 2, t, it), st) :
        u \in Names, t \in Themes, it \in ItemLists, st \in {<<>>, <<1>>}}

\* the state apart from `pure`, which the functions of utils.js leave alone
Rest ==
    <<history, currentIndex, localStorage, foreignUsed, storeThrows, lastCall,
      setFailed, effects, tracking, pushLog, lastPushed, appVars, warnings,
      stickerIdCounter, cleared, tally>>

\* deepClone(x)
CallDeepClone ==
    /\ pure.fn = ""
    /\ \E x \in CloneInputs :
          pure' = [fn |-> "deepClone", input |-> <<x>>,
                   output |-> <<Fresh(deepClone(x), 3, 4)>>,
                   was |-> <<Plain(x)>>, wrote |-> {}]
    /\ UNCHANGED Rest

\* the caller writes to the clone, at the top level or in the nested object
WriteToClone ==
    /\ pure.fn = "deepClone"
    /\ Cardinality(pure.wrote) < MaxWrites
    /\ LET c == pure.output[1]
       IN \/ \E u \in Names \ {c.userName} :
               pure' = [pure EXCEPT !.input[1] = WriteTop(@, c.ref, u),
                                    !.output[1] = WriteTop(@, c.ref, u),
                                    !.wrote = @ \cup {"clone"}]
          \/ \E t \in Themes \ {c.customization.theme} :
               pure' = [pure EXCEPT
                           !.input[1] = WriteNested(@, c.customization.ref, t),
                           !.output[1] = WriteNested(@, c.customization.ref, t),
                           !.wrote = @ \cup {"clone"}]
    /\ UNCHANGED Rest

\* the caller writes to the object it had cloned
WriteToOriginal ==
    /\ pure.fn = "deepClone"
    /\ Cardinality(pure.wrote) < MaxWrites
    /\ LET x == pure.input[1]
       IN \/ \E u \in Names \ {x.userName} :
               pure' = [pure EXCEPT !.input[1] = WriteTop(@, x.ref, u),
                                    !.output[1] = WriteTop(@, x.ref, u),
                                    !.wrote = @ \cup {"original"}]
          \/ \E t \in Themes \ {x.customization.theme} :
               pure' = [pure EXCEPT
                           !.input[1] = WriteNested(@, x.customization.ref, t),
                           !.output[1] = WriteNested(@, x.customization.ref, t),
                           !.wrote = @ \cup {"original"}]
    /\ UNCHANGED Rest

\* the characters strings are made of: the five sanitize replaces, two kinds of
\* white space, a letter, and the ampersand of the entities
Chars == {"<", ">", "\"", "'", "/", " ", "\t", "a", "&"}

WhiteSpace == {" ", "\t"}

\* the values sanitize is called with: strings, as sequences of characters, and
\* values that are no strings
SanitizeInputs ==
    {[type |-> "string", chars |-> c] :
        c \in UNION {[1..n -> Chars] : n \in 0..MaxLen}}
    \cup {[type |-> t, chars |-> <<>>] : t \in {"null", "undefined", "number", "object"}}

\* String.prototype.trim, from the start
RECURSIVE trimStart(_)
trimStart(str) ==
    IF str # <<>> /\ Head(str) \in WhiteSpace THEN trimStart(Tail(str)) ELSE str

\* String.prototype.trim, from the end
RECURSIVE trimEnd(_)
trimEnd(str) ==
    IF str # <<>> /\ str[Len(str)] \in WhiteSpace
    THEN trimEnd(SubSeq(str, 1, Len(str) - 1)) ELSE str

trim(str) == trimEnd(trimStart(str))

\* str.replace(/c/g, entity)
RECURSIVE replace(_, _, _)
replace(str, c, entity) ==
    IF str = <<>> THEN <<>>
    ELSE (IF Head(str) = c THEN entity ELSE <<Head(str)>>)
         \o replace(Tail(str), c, entity)

\* a sanitize that leaves the slash
sanitizeKeepsSlash(x) ==
    IF x.type # "string" THEN <<>>
    ELSE replace(
           replace(
             replace(
               replace(trim(x.chars), "<", <<"&", "l", "t", ";">>),
               ">", <<"&", "g", "t", ";">>),
             "\"", <<"&", "q", "u", "o", "t", ";">>),
           "'", <<"&", "#", "0", "3", "9", ";">>)

\* sanitize(str): the characters of the string returned
sanitize(x) ==
    IF x.type # "string" THEN <<>>
    ELSE replace(
           replace(
             replace(
               replace(
                 replace(trim(x.chars), "<", <<"&", "l", "t", ";">>),
                 ">", <<"&", "g", "t", ";">>),
               "\"", <<"&", "q", "u", "o", "t", ";">>),
             "'", <<"&", "#", "0", "3", "9", ";">>),
           "/", <<"&", "#", "x", "2", "F", ";">>)

\* sanitize(str)
CallSanitize ==
    /\ pure.fn = ""
    /\ \E x \in SanitizeInputs :
          pure' = [fn |-> "sanitize", input |-> <<x>>, output |-> <<sanitize(x)>>,
                   was |-> <<x>>, wrote |-> {}]
    /\ UNCHANGED Rest

\* the arrays shuffle is called with
ShuffleInputs == UNION {[1..n -> 1..MaxLen] : n \in 0..MaxLen}

\* the values Math.floor(Math.random() * (i + 1)) can take in the rounds
\* i = length - 1, .., 1 of the loop, by round
Choices(n) == {js \in [1..(n - 1) -> 0..(n - 1)] : \A i \in 1..(n - 1) : js[i] <= i}

\* [a[i], a[j]] = [a[j], a[i]], the indices counted from 0
swap(a, i, j) == [a EXCEPT ![i + 1] = a[j + 1], ![j + 1] = a[i + 1]]

\* the loop of shuffle from round i down
RECURSIVE shuffleFrom(_, _, _)
shuffleFrom(shuffled, i, js) ==
    IF i > 0 THEN shuffleFrom(swap(shuffled, i, js[i]), i - 1, js) ELSE shuffled

\* a shuffle that works on the array it was given
shuffleInPlace(array, js) ==
    LET shuffled == shuffleFrom(array, Len(array) - 1, js)
    IN [array |-> shuffled, shuffled |-> shuffled]

\* shuffle(array) when the random choices are js: the array given, after the call,
\* and the array returned
shuffle(array, js) ==
    LET shuffled == shuffleFrom(array, Len(array) - 1, js)
    IN [array |-> array, shuffled |-> shuffled]

\* shuffle(array)
CallShuffle ==
    /\ pure.fn = ""
    /\ \E array \in ShuffleInputs : \E js \in Choices(Len(array)) :
          LET r == shuffle(array, js)
          IN pure' = [fn |-> "shuffle", input |-> <<r.array>>,
                      output |-> <<r.shuffled>>, was |-> <<array>>, wrote |-> {}]
    /\ UNCHANGED Rest

\* the page has loaded; one function of utils.js is called, once
InitPure == Boot([k \in AllKeys |-> <<>>], {<<0, "none">>}, FALSE)

NextPure ==
    \/ CallDeepClone \/ WriteToClone \/ WriteToOriginal
    \/ CallSanitize \/ CallShuffle

SpecPure == InitPure /\ [][NextPure]_vars

\* ------------------------------------------------------------- storage alone
\* the session's localStorage: it works, it is nearly full, setItem throws a quota
\* error or another error, every access throws
StoreEnvironments ==
    {<<0, "none">>, <<QuotaLimit - StoreRoom, "none">>, <<0, "QuotaExceededError">>,
     <<0, "InvalidStateError">>, <<0, "SecurityError">>}

\* a text under bucketlist_data that JSON.parse rejects
CorruptText == [text |-> [raw |-> "{\"userName\":"], length |-> 12, valid |-> FALSE]

\* the texts storage.set is given
SetTexts == {StringifyOnboarding, JSONstringify(Obj(0, "Kim", 0, "default", FirstItems))}

\* the stores the session starts with: empty, a corrupt entry, an entry of an
\* earlier session, a sentinel an interrupted isAvailable left
StoreStarts ==
    {[k \in AllKeys |-> <<>>],
     [k \in AllKeys |-> IF k = STORAGE_KEY THEN <<CorruptText>> ELSE <<>>],
     [k \in AllKeys |-> IF k = ONBOARDING_KEY THEN <<StringifyOnboarding>> ELSE <<>>],
     [k \in AllKeys |-> IF k = SentinelKey THEN <<SentinelText>> ELSE <<>>]}

InitStore == \E ls \in StoreStarts : Boot(ls, StoreEnvironments, TRUE)

\* storage.set(key, value)
StoreSet ==
    /\ Cardinality(warnings) < MaxWarnings
    /\ \E key \in {STORAGE_KEY, ONBOARDING_KEY} : \E text \in SetTexts :
         LET r == storageSet(localStorage, key, text)
         IN /\ localStorage' = r.store
            /\ setFailed' = (setFailed \/ ~r.ok)
            /\ effects' = [NoEffects EXCEPT !.sets = <<SetCall(key, r)>>,
                                           !.key = key, !.value = <<text>>,
                                           !.raised = r.raised]
            /\ warnings' = Warned(warnings, effects'.sets)
    /\ lastCall' = Call("storage.set", <<>>, <<>>, NoNote)
    /\ UNCHANGED <<history, currentIndex, foreignUsed, storeThrows, tally, cleared, pure, stickerIdCounter, tracking, pushLog,
                   lastPushed, appVars>>

\* storage.get(key, defaultValue)
StoreGet ==
    /\ \E key \in Keys : \E d \in {<<>>, <<StringifyOnboarding>>} :
         LET r == storageGetOr(localStorage, key, d)
         IN effects' = [NoEffects EXCEPT !.key = key, !.defaultValue = d,
                                        !.got = r.value, !.raised = r.raised]
    /\ lastCall' = Call("storage.get", <<>>, <<>>, NoNote)
    /\ UNCHANGED <<history, currentIndex, localStorage, foreignUsed, storeThrows, tally, cleared, pure, stickerIdCounter,
                   setFailed, warnings, tracking, pushLog, lastPushed, appVars>>

\* storage.remove(key)
StoreRemove ==
    /\ \E key \in Keys :
         /\ localStorage' = storageRemove(localStorage, key)
         /\ effects' = [NoEffects EXCEPT
                           !.key = key,
                           !.removed = Present(localStorage) \ Present(localStorage')]
    /\ lastCall' = Call("storage.remove", <<>>, <<>>, NoNote)
    /\ UNCHANGED <<history, currentIndex, foreignUsed, storeThrows, tally, cleared, pure, stickerIdCounter, setFailed,
                   warnings, tracking, pushLog, lastPushed, appVars>>

\* storage.isAvailable()
IsAvailable ==
    /\ LET r == isAvailable(localStorage)
       IN /\ localStorage' = r.store
          /\ effects' = [NoEffects EXCEPT !.key = SentinelKey,
                                         !.available = r.result,
                                         !.raised = r.raised]
    /\ lastCall' = Call("storage.isAvailable", <<>>, <<>>, NoNote)
    /\ UNCHANGED <<history, currentIndex, foreignUsed, storeThrows, tally, cleared, pure, stickerIdCounter, setFailed,
                   warnings, tracking, pushLog, lastPushed, appVars>>

\* the storage wrapper called on its own, and the clock of its warnings
NextStore == StoreSet \/ StoreGet \/ StoreRemove \/ IsAvailable \/ TimePasses

SpecStore == InitStore /\ [][NextStore]_vars

\* ------------------------------------------------------------- properties
\* a step that is the call `op` (and not a write of the caller after it)
PushStep == lastCall'.op = "push" /\ lastCall'.writes = 0
UndoStep == lastCall'.op = "undo" /\ lastCall'.writes = 0
RedoStep == lastCall'.op = "redo" /\ lastCall'.writes = 0

Values == PlainSeq(history)

\* C1: the cursor is in range: currentIndex = -1 when the history is empty, and
\* 0 <= currentIndex < length(history) when it is not.
C1_CursorInRange ==
    /\ history = <<>> => currentIndex = -1
    /\ history # <<>> => 0 <= currentIndex /\ currentIndex < Len(history)

C1_Witness ==
    /\ lastCall.op = "undo"
    /\ Len(history) = maxHistory
    /\ currentIndex = 0

\* C2: the history never holds more than maxHistory entries, and a push made on a
\* full history with the cursor at the tail removes exactly the oldest entry, keeps
\* the others in order and leaves the cursor on the snapshot just pushed.
C2_Capacity ==
    [][/\ Len(history') <= maxHistory
       /\ (PushStep /\ Len(history) = maxHistory /\ currentIndex = maxHistory - 1)
            => /\ Len(history') = maxHistory
               /\ currentIndex' = maxHistory - 1
               /\ SubSeq(PlainSeq(history'), 1, maxHistory - 1) = Tail(Values)
               /\ Plain(At(history', currentIndex')) = Plain(lastCall'.arg[1])]_vars

C2_Witness ==
    /\ lastCall.op = "push"
    /\ tracking
    /\ Len(pushLog) = maxHistory + 1
    /\ Len(history) = maxHistory

\* C3: after N <= maxHistory consecutive pushes on an empty history the history
\* holds exactly the N pushed snapshots in order and the cursor is N - 1.
C3_PushRun ==
    (tracking /\ Len(pushLog) <= maxHistory)
        => /\ Len(history) = Len(pushLog)
           /\ currentIndex = Len(pushLog) - 1
           /\ \A i \in 1..Len(pushLog) : Plain(history[i]) = pushLog[i]

C3_Witness ==
    /\ tracking
    /\ Len(pushLog) = maxHistory
    /\ lastCall.op = "push"

\* C4: after N > maxHistory consecutive pushes on an empty history the history
\* holds exactly the last maxHistory pushed snapshots in push order (entry i is
\* push N - maxHistory + i), so the first pushed snapshot is at no position that
\* undo or redo can return.
C4_FifoEviction ==
    (tracking /\ Len(pushLog) > maxHistory)
        => /\ Len(history) = maxHistory
           /\ currentIndex = maxHistory - 1
           /\ \A i \in 1..maxHistory :
                 Plain(history[i]) = pushLog[Len(pushLog) - maxHistory + i]

C4_Witness ==
    /\ tracking
    /\ Len(pushLog) = maxHistory + 2
    /\ lastCall.op = "push"

C6_UndoReturnsPushedBefore ==
    [][(lastCall.op = "push" /\ lastCall.writes = 0 /\ UndoStep)
          => PlainSeq(lastCall'.result) = lastCall.note.pushedBefore]_vars

\* C6 amended: push(s) followed at once by undo() returns the snapshot that was at
\* the cursor when s was pushed, or null if the history was empty then.
C6_UndoReturnsWasCurrent ==
    [][(lastCall.op = "push" /\ lastCall.writes = 0 /\ UndoStep)
          => PlainSeq(lastCall'.result) = lastCall.note.wasCurrent]_vars

C6_Witness ==
    /\ lastCall.op = "undo"
    /\ lastCall.result # <<>>
    /\ currentIndex = Len(history) - 2
    /\ lastPushed = <<Plain(history[Len(history)])>>
    /\ Plain(lastCall.result[1]).items = <<"Japan", "Peru">>
    /\ lastPushed[1].items = <<"Japan", "Peru", "Nepal">>

\* C7: at a boundary undo() and redo() return null and change neither the history
\* nor the cursor, however often they are repeated.
C7_BoundaryNoOp ==
    [][/\ (UndoStep /\ currentIndex <= 0)
            => /\ lastCall'.result = <<>>
               /\ history' = history
               /\ currentIndex' = currentIndex
       /\ (RedoStep /\ currentIndex >= Len(history) - 1)
            => /\ lastCall'.result = <<>>
               /\ history' = history
               /\ currentIndex' = currentIndex]_vars

C7_Witness ==
    /\ lastCall.op = "undo"
    /\ lastCall.result = <<>>
    /\ currentIndex = 0
    /\ Len(history) >= 2

\* C8: canUndo() is true exactly when the next undo() returns a snapshot, and
\* canRedo() exactly when the next redo() does.
C8_CanMirrorsResult ==
    [][/\ UndoStep => (canUndo(Manager) <=> lastCall'.result # <<>>)
       /\ RedoStep => (canRedo(Manager) <=> lastCall'.result # <<>>)]_vars

C8_Witness ==
    /\ lastCall.op = "undo"
    /\ lastCall.result # <<>>
    /\ currentIndex = 1
    /\ canRedo(Manager)

\* C9: a successful undo() moves the cursor down by exactly one and returns the
\* entry at the new cursor, a successful redo() moves it up by exactly one and
\* returns the entry there, and neither changes the history.
C9_UndoRedoFrame ==
    [][/\ (UndoStep /\ lastCall'.result # <<>>)
            => /\ currentIndex' = currentIndex - 1
               /\ Plain(lastCall'.result[1]) = Plain(At(history, currentIndex'))
       /\ (RedoStep /\ lastCall'.result # <<>>)
            => /\ currentIndex' = currentIndex + 1
               /\ Plain(lastCall'.result[1]) = Plain(At(history, currentIndex'))
       /\ (UndoStep \/ RedoStep) => PlainSeq(history') = Values]_vars

C9_Witness ==
    /\ lastCall.op = "redo"
    /\ lastCall.result # <<>>
    /\ currentIndex = Len(history) - 1
    /\ Len(history) = maxHistory

\* C10: no write of the caller through a reference it holds (the object it passed
\* to push, a result of undo or redo, what getHistory returned) changes a snapshot
\* stored in the history.
C10_HistoryOwnsSnapshots ==
    [][lastCall'.writes = lastCall.writes + 1 => PlainSeq(history') = Values]_vars

\* C11: every push calls storage.set once, for bucketlist_history and with the
\* pair (history, currentIndex) as the push left it; when that call returns false
\* the store is as before and the push still stands in memory: the new snapshot
\* is the last entry and the cursor is on it.
C11_PushSurvivesFailedSave ==
    [][PushStep =>
         LET full == Append(SubSeq(Values, 1, currentIndex + 1),
                            Plain(lastCall'.arg[1]))
             after == [history |-> history', currentIndex |-> currentIndex']
         IN /\ Len(effects'.sets) = 1
            /\ effects'.sets[1].key = HISTORY_KEY
            /\ PlainSeq(history') =
                  IF Len(full) > maxHistory THEN Tail(full) ELSE full
            /\ currentIndex' = Len(history') - 1
            /\ IF effects'.sets[1].ok
               THEN localStorage'[HISTORY_KEY] = <<StringifyHistory(after)>>
               ELSE localStorage' = localStorage]_vars

\* the store was filled up while the history grew: the entry stored lags
C11_Witness ==
    /\ lastCall.op = "push"
    /\ ~effects.sets[1].ok
    /\ localStorage[HISTORY_KEY] # <<>>
    /\ Len(localStorage[HISTORY_KEY][1].text.history) < Len(history)
    /\ currentIndex = Len(history) - 1

\* what loadFromStorage would make of the manager now
Reloaded ==
    loadFromStorage([history |-> history, currentIndex |-> currentIndex], localStorage)

\* C12 as stated: while no storage.set call has failed, a loadFromStorage made
\* after any History operation would reproduce the history and the cursor held
\* in memory.
C12_StoreMirrorsMemory ==
    ~setFailed => /\ PlainSeq(Reloaded.history) = Values
                  /\ Reloaded.currentIndex = currentIndex

\* C12 amended: while no storage.set call has failed, a loadFromStorage made after
\* any History operation would reproduce the history held in memory, with the
\* cursor on its last entry: it reproduces the cursor held in memory after a push
\* or a clear, and whenever undo and redo have left the cursor on the last entry.
C12_StoreMirrorsLastPush ==
    ~setFailed => /\ PlainSeq(Reloaded.history) = Values
                  /\ Reloaded.currentIndex = Len(history) - 1
                  /\ lastCall.op \in {"push", "clear"}
                        => Reloaded.currentIndex = currentIndex

\* an undo has moved the cursor and the entry stored still has it on the tail
C12_Witness ==
    /\ ~setFailed
    /\ lastCall.op = "undo"
    /\ lastCall.result # <<>>
    /\ localStorage[HISTORY_KEY] # <<>>
    /\ currentIndex < Len(history) - 1
    /\ Reloaded.currentIndex = Len(history) - 1

\* C13: loadFromStorage on a new manager sets (history, currentIndex) to the pair
\* stored under bucketlist_history when an entry is there, leaves the manager
\* empty with the cursor at -1 when the entry is missing or is not JSON, and
\* whatever the entry, the cursor is in range afterwards.
C13_LoadKeepsCursorInRange ==
    lastCall.op = "loadFromStorage" =>
        LET entry == localStorage[HISTORY_KEY]
        IN /\ (entry = <<>> \/ ~entry[1].valid)
                 => history = <<>> /\ currentIndex = -1
           /\ (entry # <<>> /\ entry[1].valid
                 /\ DOMAIN entry[1].text = {"history", "currentIndex"})
                 => /\ Values = entry[1].text.history
                    /\ currentIndex = entry[1].text.currentIndex
           /\ C1_CursorInRange

\* C14: clear() empties the history, puts the cursor at -1 and removes the
\* bucketlist_history entry; clearSavedData does that and removes bucketlist_data
\* and bucketlist_onboarding as well, so that right after it none of the three
\* keys is in the store and canUndo() and canRedo() are both false.
C14_ClearSavedData ==
    [][lastCall'.op = "clearSavedData" =>
         /\ history' = <<>>
         /\ currentIndex' = -1
         /\ \A k \in Keys : localStorage'[k] = <<>>
         /\ ~canUndo([history |-> history', currentIndex |-> currentIndex'])
         /\ ~canRedo([history |-> history', currentIndex |-> currentIndex'])]_vars

\* all three entries were in the store when clearSavedData was called
C14_Witness ==
    /\ lastCall.op = "clearSavedData"
    /\ effects.removed = Keys
    /\ Present(localStorage) = {}

\* a step in which the save callback of autoSave runs
AutoSaveStep == lastCall'.op = "autoSave"

\* C15: when the autosave fires it calls storage.set for bucketlist_data with a
\* snapshot of the editor; exactly when that call returns true the save indicator
\* is shown and the snapshot is pushed onto the history (after the entries up to
\* the cursor, the cursor moving onto it); when it returns false the history, the
\* cursor and the store, the bucketlist_history entry included, stay as they were.
C15_PushIffDataSaved ==
    [][AutoSaveStep =>
         LET saved == effects'.sets[1].ok
         IN /\ effects'.sets[1].key = STORAGE_KEY
            /\ effects'.indicator <=> saved
            /\ saved =>
                  /\ localStorage'[STORAGE_KEY] # <<>>
                  /\ localStorage'[STORAGE_KEY][1].text = doc
                  /\ PlainSeq(history') =
                        Append(SubSeq(Values, 1, currentIndex + 1), doc)
                  /\ currentIndex' = Len(history') - 1
                  /\ Len(effects'.sets) = 2
                  /\ effects'.sets[2].key = HISTORY_KEY
            /\ ~saved =>
                  /\ history' = history
                  /\ currentIndex' = currentIndex
                  /\ localStorage' = localStorage
                  /\ Len(effects'.sets) = 1]_vars

\* a save that storage.set refused for want of room, with a snapshot in the history
\* and the editor changed since
C15_Witness ==
    /\ lastCall.op = "autoSave"
    /\ ~effects.sets[1].ok
    /\ ~effects.indicator
    /\ history # <<>>
    /\ localStorage[HISTORY_KEY] # <<>>
    /\ Plain(At(history, currentIndex)) # doc

\* C16: the save callback runs only when Delay ms have passed since autoSave() was
\* last called, that is no sooner than Delay ms after the last call of a burst
\* (calls at 0, 200 and 400 ms: not before 1400 ms); it answers at least one call,
\* and once it has run no timeout is pending until autoSave() is called again,
\* so a burst of calls less than Delay ms apart is answered by one run.
C16_TrailingEdgeDebounce ==
    [][/\ AutoSaveStep =>
            /\ elapsed >= Delay
            /\ (stopwatch /\ span < SpanCap) => span >= lastAt + Delay
            /\ burst >= 1
            /\ pending' = {}
       /\ burst' = 0 => pending' = {}]_vars

\* autoSave() was called at 0, Tick and 2 * Tick ms and the callback has run once,
\* Delay ms after the last call
C16_Witness ==
    /\ lastCall.op = "autoSave"
    /\ effects.calls = 3
    /\ effects.lastAt = 2 * Tick
    /\ effects.span >= 2 * Tick + Delay
    /\ effects.span < 3 * Tick + Delay
    /\ pending = {}

\* the handler that has just returned called storage.set for bucketlist_data, and
\* if that call returned true the entry stored is the editor as it is
SavedInHandler ==
    /\ effects'.sets # <<>>
    /\ effects'.sets[1].key = STORAGE_KEY
    /\ effects'.sets[1].ok =>
          /\ localStorage'[STORAGE_KEY] # <<>>
          /\ localStorage'[STORAGE_KEY][1].text = doc'

\* C17: when the beforeunload handler returns, the snapshot has been taken and
\* storage.set has been called for bucketlist_data, so that an edit made less
\* than Delay ms before the unload is in the store.
C17_UnloadSavesInHandler ==
    [][lastCall'.op = "beforeunload" => SavedInHandler]_vars

\* C18: when the keydown handler of Ctrl+S or Meta+S returns, the snapshot has been
\* taken and storage.set has been called for bucketlist_data, and if that call
\* returned true the snapshot is the entry of the history at the cursor.
C18_ShortcutSavesInHandler ==
    [][lastCall'.op = "keydownSave" =>
         /\ SavedInHandler
         /\ effects'.sets[1].ok =>
               /\ history' # <<>>
               /\ Plain(At(history', currentIndex')) = doc']_vars

\* the write of `length` characters is more than the store `ls` has room for
OverCeiling(ls, length) == getUsedSpace(ls) + length > QuotaLimit

\* the store once the save callback has written the editor under bucketlist_data
DataWritten ==
    [localStorage EXCEPT ![STORAGE_KEY] =
        <<[text |-> doc, length |-> SnapshotLen(doc), valid |-> TRUE]>>]

\* C19: a storage.set call whose serialized length added to the space in use is
\* more than QuotaLimit characters returns false and leaves every key and value
\* of the store as the call found it: so for the call of dismissStickerTooltip,
\* for the bucketlist_data call of the save callback, and for the
\* bucketlist_history call of the push that follows it.
C19_CeilingRejects ==
    [][/\ (lastCall'.op = "dismissStickerTooltip"
            /\ OverCeiling(localStorage, StringifyOnboarding.length))
            => ~effects'.sets[1].ok /\ localStorage' = localStorage
       /\ (AutoSaveStep /\ OverCeiling(localStorage, SnapshotLen(doc)))
            => ~effects'.sets[1].ok /\ localStorage' = localStorage
       /\ (AutoSaveStep /\ Len(effects'.sets) = 2
            /\ OverCeiling(DataWritten,
                   StringifyHistory([history |-> history',
                                     currentIndex |-> currentIndex']).length))
            => ~effects'.sets[2].ok /\ localStorage' = DataWritten]_vars

\* the save callback stored the editor, and the history, one snapshot, did not fit
C19_Witness ==
    /\ lastCall.op = "autoSave"
    /\ storeThrows = "none"
    /\ Len(effects.sets) = 2
    /\ effects.sets[1].ok
    /\ ~effects.sets[2].ok
    /\ localStorage[STORAGE_KEY] # <<>>
    /\ localStorage[STORAGE_KEY][1].text = doc
    /\ localStorage[HISTORY_KEY] = <<>>
    /\ Plain(At(history, currentIndex)) = doc

\* C20: a storage.set call that fails for want of room, the size check refusing
\* the write or setItem throwing QuotaExceededError, returns false and puts the
\* warning of showStorageWarning on the page.
C20_QuotaFailureWarns ==
    [][\A i \in 1..Len(effects'.sets) :
          ~effects'.sets[i].ok => effects'.sets[i].warning]_vars

\* C21 as stated: whenever the catch block of storage.set has run, the call
\* returned false, raised nothing and put the storage warning on the page.
C21_EveryFailureWarns ==
    \A i \in 1..Len(effects.sets) :
        effects.sets[i].threw =>
            /\ ~effects.sets[i].ok
            /\ ~effects.sets[i].raised
            /\ effects.sets[i].warning

\* C21 amended: whenever the catch block of storage.set has run, the call returned
\* false and raised nothing, and it put the storage warning on the page exactly
\* when the error caught was named QuotaExceededError; a warning just shown has
\* 5000 ms left, and no warning stays on the page beyond them.
C21_QuotaFailureWarns ==
    /\ \A i \in 1..Len(effects.sets) :
          effects.sets[i].threw =>
              /\ ~effects.sets[i].ok
              /\ ~effects.sets[i].raised
              /\ effects.sets[i].warning <=> (storeThrows = "QuotaExceededError")
    /\ (lastCall.op = "storage.set" /\ effects.sets[1].warning) => WarningMs \in warnings
    /\ \A w \in warnings : 0 < w /\ w <= WarningMs

\* setItem threw an error that is no quota error, and the page shows no warning
C21_Witness ==
    /\ lastCall.op = "storage.set"
    /\ effects.sets[1].threw
    /\ storeThrows = "InvalidStateError"
    /\ ~effects.sets[1].ok
    /\ warnings = {}

\* C22: storage.get(key, defaultValue) leaves the store as it was and raises
\* nothing; on a store that can be read it returns defaultValue when the key is
\* absent or its text is not valid JSON, and the value the stored text denotes
\* otherwise; on a store that cannot be read it returns defaultValue.
C22_GetReturnsStoredOrDefault ==
    [][lastCall'.op = "storage.get" =>
         LET entry == localStorage[effects'.key]
         IN /\ localStorage' = localStorage
            /\ ~effects'.raised
            /\ effects'.got =
                  IF storeThrows = "SecurityError" THEN effects'.defaultValue
                  ELSE IF entry = <<>> THEN effects'.defaultValue
                  ELSE IF ~entry[1].valid THEN effects'.defaultValue
                  ELSE entry]_vars

\* get was called with a default on a key whose text is not JSON, and returned
\* the default
C22_Witness ==
    /\ lastCall.op = "storage.get"
    /\ storeThrows = "none"
    /\ localStorage[effects.key] = <<CorruptText>>
    /\ effects.defaultValue # <<>>
    /\ effects.got = effects.defaultValue

\* C27: storage.isAvailable() raises nothing and returns true exactly when
\* localStorage lets the sentinel be written and removed; when it returns true the
\* sentinel key is absent and every other key holds what it held.
C27_IsAvailableProbe ==
    [][lastCall'.op = "storage.isAvailable" =>
         /\ ~effects'.raised
         /\ effects'.available <=> (storeThrows = "none")
         /\ effects'.available =>
               /\ localStorage'[SentinelKey] = <<>>
               /\ \A k \in Keys : localStorage'[k] = localStorage[k]]_vars

\* isAvailable returned true on a store that holds the program's entries
C27_Witness ==
    /\ lastCall.op = "storage.isAvailable"
    /\ effects.available
    /\ Present(localStorage) # {}
    /\ SentinelKey \notin Present(localStorage)

\* C23: when storage is not available, init shows its notice, completes all its
\* steps without raising and leaves the page with its listeners; from then on no
\* save, undo, redo or clear raises, and the page stays open.
C23_UnavailableStorageIsNotFatal ==
    storeThrows # "none" =>
        /\ lastCall.op = "init" =>
              /\ effects.notice = "storageUnavailable"
              /\ effects.steps = InitSteps
        /\ lastCall.op # "new" => page = "open" /\ ~effects.raised

\* storage was not available at startup; an edit was made, its save failed, and the
\* editor holds the edit
C23_Witness ==
    /\ storeThrows = "SecurityError"
    /\ page = "open"
    /\ lastCall.op = "autoSave"
    /\ ~effects.sets[1].ok
    /\ doc # FirstDoc

\* C24: when undo() returns null, that is when canUndo() is false, handleUndo
\* calls no restoreState, shows no notification, and leaves the editor, the history
\* and currentIndex as they were; so does handleRedo when canRedo() is false.
C24_BoundaryIsNoOp ==
    [][(\/ lastCall'.op = "handleUndo" /\ ~canUndo(Manager)
        \/ lastCall'.op = "handleRedo" /\ ~canRedo(Manager)) =>
          /\ lastCall'.result = <<>>
          /\ ~effects'.restored
          /\ effects'.notice = ""
          /\ doc' = doc
          /\ PlainSeq(history') = PlainSeq(history)
          /\ currentIndex' = currentIndex]_vars

\* handleRedo was called at the tail of a history of two entries, with an edit in
\* the editor that is not saved yet
C24_Witness ==
    /\ lastCall.op = "handleRedo"
    /\ lastCall.result = <<>>
    /\ Len(history) = 2
    /\ currentIndex = 1
    /\ doc # Plain(At(history, currentIndex))

\* C25: a keydown of Z with Ctrl or Meta and without Shift runs handleUndo and
\* not handleRedo; a keydown of Z with Ctrl or Meta and Shift, or of Y with Ctrl or
\* Meta, runs handleRedo and not handleUndo; no keydown runs more than one of
\* handleUndo, handleRedo and autoSave.
C25_ShortcutsMapToHistory ==
    [][lastCall'.op = "keydown" =>
         LET e == effects'.event[1]
             ran == effects'.ran
             modifier == e.ctrlKey \/ e.metaKey
         IN /\ (modifier /\ e.letter = "z" /\ ~e.shiftKey) =>
                  (Has(ran, "handleUndo") /\ ~Has(ran, "handleRedo"))
            /\ (modifier /\ ((e.letter = "z" /\ e.shiftKey) \/ e.letter = "y")) =>
                  (Has(ran, "handleRedo") /\ ~Has(ran, "handleUndo"))
            /\ Len(ran) <= 1]_vars

\* whether no two stickers of `stickers` have the same id
Distinct(stickers) ==
    \A i, j \in 1..Len(stickers) : stickers[i] = stickers[j] => i = j

\* C26: in every snapshot captured, the one stored under bucketlist_data and those
\* of the history, the sticker ids are pairwise distinct.
C26_StickerIdsDistinct ==
    /\ \A i \in 1..Len(history) : Distinct(history[i].stickers)
    /\ localStorage[STORAGE_KEY] # <<>> =>
          Distinct(localStorage[STORAGE_KEY][1].text.stickers)

\* C28: the clone deepClone returns has the data of its argument; whatever the
\* caller then writes to the clone, at the top level or in the nested object,
\* leaves the argument as it was, and whatever it writes to the argument leaves the
\* clone as it was.
C28_CloneIsEqualAndSeparate ==
    pure.fn = "deepClone" =>
        /\ pure.wrote = {} => Plain(pure.output[1]) = Plain(pure.input[1])
        /\ "original" \notin pure.wrote => <<Plain(pure.input[1])>> = pure.was
        /\ "clone" \notin pure.wrote => <<Plain(pure.output[1])>> = pure.was

\* the theme of the clone's nested customization object was written, and the
\* argument still has the theme it had
C28_Witness ==
    /\ pure.fn = "deepClone"
    /\ pure.wrote = {"clone"}
    /\ pure.output[1].customization.theme # pure.was[1].customization.theme
    /\ pure.input[1].customization.theme = pure.was[1].customization.theme

\* the entity of a character sanitize replaces, the character itself otherwise
Entity(c) ==
    IF c = "<" THEN <<"&", "l", "t", ";">>
    ELSE IF c = ">" THEN <<"&", "g", "t", ";">>
    ELSE IF c = "\"" THEN <<"&", "q", "u", "o", "t", ";">>
    ELSE IF c = "'" THEN <<"&", "#", "0", "3", "9", ";">>
    ELSE IF c = "/" THEN <<"&", "#", "x", "2", "F", ";">>
    ELSE <<c>>

\* the string between the first and the last character of `str` that is no white
\* space
Trimmed(str) ==
    LET black == {i \in 1..Len(str) : str[i] \notin WhiteSpace}
    IN IF black = {} THEN <<>>
       ELSE SubSeq(str, CHOOSE i \in black : \A j \in black : i <= j,
                        CHOOSE i \in black : \A j \in black : i >= j)

\* the entities of the characters of `str`, one after the other
RECURSIVE Escaped(_)
Escaped(str) == IF str = <<>> THEN <<>> ELSE Entity(Head(str)) \o Escaped(Tail(str))

Count(array, v) == Cardinality({i \in 1..Len(array) : array[i] = v})

\* C30: whatever the random choices, shuffle leaves the array it was given as it
\* was, and the array it returns has the same length and the same elements, each
\* as often.
C30_ShufflePermutes ==
    pure.fn = "shuffle" =>
        /\ pure.input = pure.was
        /\ Len(pure.output[1]) = Len(pure.was[1])
        /\ \A v \in 1..MaxLen : Count(pure.output[1], v) = Count(pure.was[1], v)

\* shuffle returned the three elements of its array in another order
C30_Witness ==
    /\ pure.fn = "shuffle"
    /\ pure.was = <<(<<1, 2, 3>>)>>
    /\ pure.input = pure.was
    /\ pure.output = <<(<<3, 1, 2>>)>>

\* C31: from a clearSavedData() until the next autoSave() call, bucketlist_data
\* and bucketlist_history are absent from the store and the history is empty.
C31_ClearedStaysCleared ==
    cleared =>
        /\ localStorage[STORAGE_KEY] = <<>>
        /\ localStorage[HISTORY_KEY] = <<>>
        /\ history = <<>>

\* C32: after handleUndo or handleRedo has applied the snapshot it got through
\* restoreState, the data autoSave would capture from the editor is that snapshot.
C32_RestoreInvertsCapture ==
    (lastCall.op \in {"handleUndo", "handleRedo"} /\ lastCall.result # <<>>) =>
        Plain(ObjOf(0, 0, doc)) = Plain(lastCall.result[1])

\* C33: every entry stored under bucketlist_history holds between 1 and 50
\* snapshots and has its cursor on the last of them, so a loadFromStorage that
\* finds an entry leaves a manager whose canRedo() is false.
C33_StoredCursorAtTail ==
    LET entry == localStorage[HISTORY_KEY]
    IN entry # <<>> =>
          /\ entry[1].text.currentIndex = Len(entry[1].text.history) - 1
          /\ Len(entry[1].text.history) \in 1..maxHistory
          /\ lastCall.op = "loadFromStorage" => ~canRedo(Manager)

\* a load has rehydrated a stored history of 50 snapshots
C33_Witness ==
    /\ lastCall.op = "loadFromStorage"
    /\ localStorage[HISTORY_KEY] # <<>>
    /\ Len(localStorage[HISTORY_KEY][1].text.history) = maxHistory
    /\ Len(history) = maxHistory
    /\ currentIndex = maxHistory - 1

\* the store throws on every write, or other keys of the origin fill it to the
\* ceiling: no storage.set call of the session can succeed
EverySetFails == storeThrows # "none" \/ foreignUsed >= QuotaLimit

\* C34: in a session where every storage.set call fails, the history that started
\* empty stays empty and canUndo() and canRedo() stay false, however many saves run.
C34_NoPushWithoutStorage ==
    EverySetFails =>
        /\ history = <<>>
        /\ currentIndex = -1
        /\ ~canUndo(Manager)
        /\ ~canRedo(Manager)
        /\ Present(localStorage) = {}

\* a save has run on a full store: its storage.set failed and nothing was pushed
C34_Witness ==
    /\ foreignUsed >= QuotaLimit
    /\ lastCall.op = "autoSave"
    /\ effects.sets # <<>>
    /\ ~effects.sets[1].ok
    /\ history = <<>>

\* C35: at most one timeout of the debounced autoSave is pending, and the runs of
\* the callback together with the pending timeout never outnumber the calls of
\* autoSave(); the callback runs only when Delay ms have passed since the last
\* call, it leaves no timeout pending and it stores the editor as it is when it
\* runs; and while the page stays open a pending timeout always leads to a run.
C35_EveryTriggerIsSaved ==
    /\ [](/\ Cardinality(pending) <= 1
          /\ tally.runs + Cardinality(pending) <= tally.calls)
    /\ [][AutoSaveStep =>
            /\ elapsed >= Delay
            /\ pending' = {}
            /\ tally'.runs = tally.runs + 1
            /\ tally'.calls = tally.calls
            /\ effects'.sets[1].ok
                  => localStorage'[STORAGE_KEY] = <<JSONstringify(ObjOf(0, 0, doc))>>]_vars
    /\ (page = "open" /\ pending # {}) ~> (page = "closed" \/ lastCall.op = "autoSave")

\* three calls of autoSave() less than Delay ms apart were answered by one run of
\* the callback, which stored the editor as the last of them left it
C35_Witness ==
    /\ lastCall.op = "autoSave"
    /\ tally = [on |-> TRUE, calls |-> 3, runs |-> 1]
    /\ effects.calls = 3
    /\ pending = {}
    /\ localStorage[STORAGE_KEY] = <<JSONstringify(ObjOf(0, 0, doc))>>
    /\ doc # FirstDoc

\* C36: storage.set(key, v) returns true exactly when the store does not throw
\* and the space in use, the value already under key included, plus the length
\* of the serialized v is at most 5 MiB; it writes exactly when it returns true;
\* after a true return get(key) gives the value the serialized v denotes, and
\* whatever it returns every other key holds what it held.
C36_SetWritesIffRoom ==
    [][lastCall'.op = "storage.set" =>
         LET key == effects'.key
             serialized == effects'.value[1]
             ok == effects'.sets[1].ok
         IN /\ ok <=> /\ storeThrows = "none"
                      /\ getUsedSpace(localStorage) + serialized.length <= QuotaLimit
            /\ ok => /\ localStorage'[key] = <<serialized>>
                     /\ storageGetOr(localStorage', key, <<>>).value = <<serialized>>
            /\ ~ok => localStorage' = localStorage
            /\ \A k \in AllKeys \ {key} : localStorage'[k] = localStorage[k]]_vars

\* a set was refused for want of room although the value would have fitted in
\* place of the one its key holds
C36_Witness ==
    /\ lastCall.op = "storage.set"
    /\ storeThrows = "none"
    /\ ~effects.sets[1].ok
    /\ localStorage[effects.key] # <<>>
    /\ getUsedSpace(localStorage) + effects.value[1].length > QuotaLimit
    /\ getUsedSpace([localStorage EXCEPT ![effects.key] = <<>>])
          + effects.value[1].length <= QuotaLimit

\* C37: where canUndo() holds, undo() followed by redo() leaves the history and
\* the cursor as they were and the redo returns the snapshot that was current;
\* where canRedo() holds, redo() followed by undo() leaves the history and the
\* cursor as they were and the undo returns the snapshot that was current.
C37_UndoRedoInverse ==
    /\ canUndo(Manager) =>
          LET u == undo(Manager)
              r == redo(u.hm)
          IN /\ u.result # <<>> /\ r.result # <<>>
             /\ r.hm.currentIndex = currentIndex
             /\ PlainSeq(r.hm.history) = Values
             /\ Plain(r.result[1]) = Plain(At(history, currentIndex))
    /\ canRedo(Manager) =>
          LET r == redo(Manager)
              u == undo(r.hm)
          IN /\ r.result # <<>> /\ u.result # <<>>
             /\ u.hm.currentIndex = currentIndex
             /\ PlainSeq(u.hm.history) = Values
             /\ Plain(u.result[1]) = Plain(At(history, currentIndex))

\* a redo has returned a snapshot and left the cursor between two others, where
\* both canUndo() and canRedo() hold
C37_Witness ==
    /\ lastCall.op = "redo"
    /\ lastCall.result # <<>>
    /\ canUndo(Manager)
    /\ canRedo(Manager)
    /\ Plain(lastCall.result[1]) = Plain(At(history, currentIndex))
    /\ Plain(At(history, currentIndex - 1)) # Plain(At(history, currentIndex))

\* C38: whenever bucketlist_data and bucketlist_history are both in the store, the
\* snapshot under bucketlist_data is the last entry of the stored history.
C38_DataIsLastStoredEntry ==
    (localStorage[STORAGE_KEY] # <<>> /\ localStorage[HISTORY_KEY] # <<>>) =>
        LET stored == localStorage[HISTORY_KEY][1].text.history
        IN /\ stored # <<>>
           /\ localStorage[STORAGE_KEY][1].text = stored[Len(stored)]

\* C39: the item list always has at least one row; addItem appends one empty
\* row; removeItem on the only row leaves that row with its text cleared, and on
\* a list of more than one row it removes that row and no other.
C39_ListNeverEmpty ==
    /\ [](Len(doc.items) >= 1)
    /\ [][/\ lastCall'.op = "addItem" => doc'.items = Append(doc.items, "")
          /\ lastCall'.op = "removeItem" =>
                IF Len(doc.items) = 1 THEN doc'.items = <<"">>
                ELSE /\ Len(doc'.items) = Len(doc.items) - 1
                     /\ \A i \in 1..Len(doc'.items) :
                           doc'.items[i] = IF i < effects'.row THEN doc.items[i]
                                           ELSE doc.items[i + 1]]_vars

\* removeItem was called on the only row, which held a text, and the row is
\* still there, empty
C39_Witness ==
    /\ lastCall.op = "removeItem"
    /\ Len(effects.before) = 1
    /\ effects.before[1] # ""
    /\ doc.items = <<"">>

====
